---- MODULE Spec2Model ----
(***************************************************************************)
(* Robot Control & Safety Core of butler-connect:                          *)
(*   RobotManager     src/src/core/robot_manager.py                        *)
(*   MotionController src/src/control/motion_controller.py                 *)
(*   SafetyMonitor    src/src/safety/safety_monitor.py                     *)
(*                                                                         *)
(* All coroutines run on one asyncio event loop: a coroutine runs without  *)
(* interruption until it awaits something that really suspends (a sleep).  *)
(* Awaiting another coroutine of the core runs it inline.  One action of   *)
(* this module is therefore one run of a handler between two suspension    *)
(* points.                                                                 *)
(*                                                                         *)
(* Velocities are integers in units of 0.5 (m/s or rad/s): 1.5 m/s is 3,   *)
(* 2.0 rad/s is 4.  Battery is in percent, temperature in degrees C,       *)
(* roll and pitch in units of 0.1 rad, time in whole seconds.              *)
(***************************************************************************)
EXTENDS Integers, Sequences, FiniteSets, TLC

VARIABLES
    robot_config,            \* RobotManager.robot_config (read-only after construction)
    motion_config,           \* MotionController.motion_config (read-only)
    safety_config,           \* the thresholds SafetyMonitor reads from its config (read-only)
    protocol,                \* RobotManager.protocol
    ros2_client,             \* RobotManager.ros2_client: "None", "ready", "failed", "shutdown"
    socket,                  \* RobotManager.socket is not None
    is_connected,            \* RobotManager.is_connected
    emergency_stop,          \* RobotManager.emergency_stop (the manager's latch)
    connect_pc,              \* position of a connect() call: "idle" or "probing"
    monitoring_task,         \* RobotManager.monitoring_task: "None", "running", "done", "cancelled"
    command_task,            \* RobotManager.command_task: "None", "running", "done", "cancelled"
    orphans,                 \* live loop tasks whose handle a later start_monitoring() replaced
    heartbeat_age,           \* now - RobotManager.last_heartbeat, in seconds, capped
    robot_state,             \* RobotManager.robot_state
    age,                     \* now - robot_state.last_update, capped
    state_callbacks,         \* RobotManager.state_callbacks: the kinds of the registered callbacks
    error_callbacks,         \* RobotManager.error_callbacks: how many are registered
    emergency_stop_active,   \* SafetyMonitor.emergency_stop_active (the supervisor's latch)
    active_alerts,           \* SafetyMonitor.active_alerts: the alerts stored, one record each
    alert_callbacks,         \* SafetyMonitor.alert_callbacks: how many are registered
    safety_enabled,          \* SafetyMonitor.safety_enabled
    safety_running,          \* SafetyMonitor.running
    current_trajectory,      \* MotionController.current_trajectory
    trajectory_index,        \* MotionController.trajectory_index
    is_executing_trajectory, \* MotionController.is_executing_trajectory
    control_running,         \* MotionController.running, and control_task is alive
    stop_pc,                 \* where a call of MotionController.stop is
    api_cmd,                 \* the velocity triple the caller submits in this run
    published,               \* the sample the robot publishes over ROS 2 in this run
    plan,                    \* the pose held and the arguments of move_to_position in this run
    last_op,                 \* the operation the last step ran
    ret,                     \* what it returned: "True", "False", "None"
    out,                     \* the motion commands it handed to the transport, in order
    actions,                 \* the safety actions it executed (SafetyAction values)
    trace,                   \* what it did, in order: stores, actions, calls, callbacks
    repeated                 \* it ran disconnect() and so did the step before it

vars ==
    << robot_config, motion_config, safety_config, protocol, ros2_client, socket,
       is_connected, emergency_stop, connect_pc, monitoring_task, command_task,
       orphans, heartbeat_age, robot_state, age,
       state_callbacks, error_callbacks, emergency_stop_active, active_alerts,
       alert_callbacks, safety_enabled, safety_running,
       current_trajectory, trajectory_index, is_executing_trajectory,
       control_running, stop_pc, api_cmd, published, plan, last_op, ret, out, actions, trace, repeated >>

(***************************************************************************)
(* Bounds of the model and constants of the program.                       *)
(***************************************************************************)
MaxVel == 4                     \* submitted velocities range over -MaxVel..MaxVel
MaxPoints == 2                  \* longest trajectory handed to the controller
MaxCallbacks == 2               \* most callbacks of a kind that observers register
MaxOrphans == 1                 \* most live loop tasks of a kind left without a handle

DefaultMaxSpeed == 3            \* robot.max_speed default 1.5
DefaultMaxAngularSpeed == 4     \* robot.max_angular_speed default 2.0
DefaultMaxLinearVelocity == 3   \* control.motion.max_linear_velocity default 1.5
DefaultMaxAngularVelocity == 4  \* control.motion.max_angular_velocity default 2.0
DefaultBatteryCritical == 10    \* alert_thresholds.battery_critical default
DefaultMinBatteryLevel == 20    \* boundaries.min_battery_level default
DefaultTemperatureWarning == 55 \* alert_thresholds.temperature_warning default
DefaultMaxTemperature == 65     \* boundaries.max_temperature default
DefaultMaxRoll == 5             \* boundaries.max_roll default 0.5 rad
DefaultMaxPitch == 5            \* boundaries.max_pitch default 0.5 rad
TimeoutThreshold == 5           \* timeout_threshold = 5.0 seconds
SimBatteryBase == 90            \* _sim_battery_base
SimBatteryFloor == 20           \* max(20.0, ...)
SimTemperatureLow == 35         \* 35.0 + 5.0 * (0.5 + 0.5 * sin) lies in 35..40

HeartbeatPeriod == 1            \* current_time - self.last_heartbeat > 1.0
HeartbeatAgeCap == HeartbeatPeriod + 2

NoOrphans == [monitoring |-> 0, command |-> 0]

Abs(x) == IF x < 0 THEN -x ELSE x
Min(a, b) == IF b < a THEN b ELSE a
Max(a, b) == IF b > a THEN b ELSE a

\* dict.get(key, default): a key is the empty set when absent, {v} when set.
Get(key, default) == IF key = {} THEN default ELSE CHOOSE v \in key : TRUE

Vel == -MaxVel .. MaxVel

\* MotionCommand (linear_x, linear_y, angular_z); step_height and gait_type do
\* not enter any check of the manager and are left out.
MotionCommand(lx, ly, az) == [linear_x |-> lx, linear_y |-> ly, angular_z |-> az]
StopCommand == MotionCommand(0, 0, 0)
AllCommands == { MotionCommand(x, y, z) : x \in Vel, y \in Vel, z \in Vel }

\* RobotState() as constructed: zero values, not connected, last_update = 0.0.
InitialRobotState ==
    [ mode |-> "IDLE", battery_level |-> 0, temperature |-> 0, roll |-> 0, pitch |-> 0,
      is_connected |-> FALSE ]

(***************************************************************************)
(* RobotManager.  The operators below take and return a record m of the    *)
(* fields a handler reads and writes while it runs (the manager's and the  *)
(* supervisor's), with the commands handed to the transport so far (out),  *)
(* the safety actions executed so far (actions) and the last return value  *)
(* (ret).  io_ok says whether the transport call of this run succeeds      *)
(* (socket.sendto not raising, the ROS 2 publish going through).  exc is   *)
(* set while an exception travels up the call stack.  err_fail is the      *)
(* first error callback that raises in this run (0: none does), alert_fail *)
(* the alert callbacks that raise in it.                                   *)
(***************************************************************************)
Running ==
    [ is_connected |-> is_connected, emergency_stop |-> emergency_stop,
      protocol |-> protocol, ros2_client |-> ros2_client, socket |-> socket,
      emergency_stop_active |-> emergency_stop_active,
      active_alerts |-> active_alerts,
      out |-> << >>, actions |-> {}, trace |-> << >>, ret |-> FALSE,
      exc |-> FALSE, err_fail |-> 0, alert_fail |-> {} ]

\* One entry of the record of what a run did.
Event(ev, id, k) == [ev |-> ev, id |-> id, k |-> k]

Did(m, ev, id, k) == [m EXCEPT !.trace = Append(@, Event(ev, id, k))]

\* The callbacks that may raise in one run.
Failures ==
    { [err |-> e, alert |-> a] : e \in 0..error_callbacks,
                                 a \in SUBSET (1..alert_callbacks) }

RunningWith(f) == [Running EXCEPT !.err_fail = f.err, !.alert_fail = f.alert]

\* _validate_motion_command without its check of angular_z.
validate_motion_command_linear_only(command) ==
    LET max_linear == Get(robot_config.max_speed, DefaultMaxSpeed)
    IN  IF Abs(command.linear_x) > max_linear THEN FALSE
        ELSE IF Abs(command.linear_y) > max_linear THEN FALSE
        ELSE TRUE

\* RobotManager._validate_motion_command
validate_motion_command(command) ==
    LET max_linear == Get(robot_config.max_speed, DefaultMaxSpeed)
        max_angular == Get(robot_config.max_angular_speed, DefaultMaxAngularSpeed)
    IN  IF Abs(command.linear_x) > max_linear THEN FALSE
        ELSE IF Abs(command.linear_y) > max_linear THEN FALSE
        ELSE IF Abs(command.angular_z) > max_angular THEN FALSE
        ELSE TRUE

\* ROS2Client.publish_twist: publishes when the publisher exists; every failure
\* is swallowed and the caller is told nothing.
publish_twist(m, command, io_ok) ==
    IF m.ros2_client = "ready" /\ io_ok
    THEN [m EXCEPT !.out = Append(@, command)]
    ELSE m

\* The dispatch of send_motion_command once its gate is passed.
dispatch(m, command, io_ok) ==
    IF m.protocol = "ros2"
    THEN [ (IF m.ros2_client # "None" THEN publish_twist(m, command, io_ok) ELSE m)
             EXCEPT !.ret = TRUE ]
    ELSE IF ~m.socket
    THEN [m EXCEPT !.ret = FALSE]
    ELSE IF ~io_ok
    THEN [m EXCEPT !.ret = FALSE]          \* sendto raised, caught at line 219
    ELSE [m EXCEPT !.out = Append(@, command), !.ret = TRUE]

\* A call of send_motion_command enters the record of the run.
Called(m, command) ==
    Did(m, "send_motion_command",
        IF command = StopCommand THEN "all_zero" ELSE "velocity", 0)

\* send_motion_command whose gate forgets the emergency-stop latch.
send_motion_command_unlatched(m, command, io_ok) ==
    LET m0 == Called(m, command)
    IN  IF ~m0.is_connected
        THEN [m0 EXCEPT !.ret = FALSE]
        ELSE IF ~validate_motion_command(command)
        THEN [m0 EXCEPT !.ret = FALSE]
        ELSE dispatch(m0, command, io_ok)

\* send_motion_command whose gate forgets connectivity.
send_motion_command_unconnected(m, command, io_ok) ==
    LET m0 == Called(m, command)
    IN  IF m0.emergency_stop
        THEN [m0 EXCEPT !.ret = FALSE]
        ELSE IF ~validate_motion_command(command)
        THEN [m0 EXCEPT !.ret = FALSE]
        ELSE dispatch(m0, command, io_ok)

\* RobotManager.send_motion_command; every exception is caught inside.
send_motion_command(m, command, io_ok) ==
    LET m0 == Called(m, command)
    IN  IF ~m0.is_connected \/ m0.emergency_stop
        THEN [m0 EXCEPT !.ret = FALSE]
        ELSE IF ~validate_motion_command(command)
        THEN [m0 EXCEPT !.ret = FALSE]
        ELSE dispatch(m0, command, io_ok)

\* for callback in self.error_callbacks: await callback("emergency_stop", ...)
\* with nothing caught: the first callback that raises ends the loop and the
\* exception goes up to the caller.
notify_error_callbacks(m, signal) ==
    LET last == IF m.err_fail = 0 THEN error_callbacks ELSE m.err_fail
    IN  [m EXCEPT !.trace = @ \o [k \in 1..last |-> Event("error_callback", signal, k)],
                  !.exc = (m.err_fail # 0)]

\* RobotManager.emergency_stop_robot
emergency_stop_robot(m, io_ok) ==
    notify_error_callbacks(
        send_motion_command([m EXCEPT !.emergency_stop = TRUE], StopCommand, io_ok),
        "emergency_stop")

\* What a call that may raise hands to its caller.
Outcome(m, r) == IF m.exc THEN "raise" ELSE r

PyBool(b) == IF b THEN "True" ELSE "False"

\* Writes the fields of m back to the objects; op returned r.
Commit(m, op, r) ==
    /\ is_connected' = m.is_connected
    /\ emergency_stop' = m.emergency_stop
    /\ protocol' = m.protocol
    /\ ros2_client' = m.ros2_client
    /\ socket' = m.socket
    /\ emergency_stop_active' = m.emergency_stop_active
    /\ active_alerts' = m.active_alerts
    /\ out' = m.out
    /\ actions' = m.actions
    /\ trace' = m.trace
    /\ last_op' = op
    /\ ret' = r
    /\ repeated' = (op = "disconnect" /\ last_op = "disconnect")

Controller ==
    << current_trajectory, trajectory_index, is_executing_trajectory, control_running,
       stop_pc >>
Config == << robot_config, motion_config, safety_config, api_cmd, published, plan >>
Callbacks == << state_callbacks, error_callbacks >>
Supervisor == << safety_enabled, safety_running, alert_callbacks >>

\* RobotManager._validate_config: the packet protocol requires both keys.
validate_config ==
    IF protocol = "ros2"
    THEN TRUE
    ELSE \A key \in {"ip_address", "udp_port"} : robot_config[key] # {}

\* initialize() that keeps the protocol when the ROS 2 set-up fails.
Initialize_no_fallback ==
    \E ros2_ok \in BOOLEAN :
        LET m == Running
            valid == validate_config
            m1 == IF valid THEN [m EXCEPT !.emergency_stop = FALSE] ELSE m
            m2 == IF valid /\ protocol = "ros2"
                  THEN [m1 EXCEPT !.ros2_client = IF ros2_ok THEN "ready" ELSE "failed"]
                  ELSE m1
        IN  /\ (protocol = "ros2" \/ ros2_ok)
            /\ Commit(m2, "initialize", PyBool(valid))
            /\ UNCHANGED << connect_pc, monitoring_task, command_task, orphans, heartbeat_age, robot_state, age,
                            Callbacks, Supervisor, Controller, Config >>

\* RobotManager.initialize: _validate_config, _initialize_safety, then the
\* ROS 2 set-up, which falls back to 'udp' when it fails.
Initialize ==
    \E ros2_ok \in BOOLEAN :
        LET m == Running
            valid == validate_config
            m1 == IF valid THEN [m EXCEPT !.emergency_stop = FALSE] ELSE m
            m2 == IF valid /\ protocol = "ros2"
                  THEN IF ros2_ok
                       THEN [m1 EXCEPT !.ros2_client = "ready"]
                       ELSE [m1 EXCEPT !.ros2_client = "failed", !.protocol = "udp"]
                  ELSE m1
        IN  /\ (protocol = "ros2" \/ ros2_ok)     \* ros2_ok is read in ROS 2 mode only
            /\ Commit(m2, "initialize", PyBool(valid))
            /\ UNCHANGED << connect_pc, monitoring_task, command_task, orphans, heartbeat_age, robot_state, age,
                            Callbacks, Supervisor, Controller, Config >>

\* RobotManager.connect in ROS 2 mode: no suspension point.
ConnectRos2 ==
    /\ protocol = "ros2"
    /\ connect_pc = "idle"
    /\ Commit([Running EXCEPT !.is_connected = TRUE], "connect", "True")
    /\ robot_state' = [robot_state EXCEPT !.is_connected = TRUE]
    /\ heartbeat_age' = 0
    /\ UNCHANGED << connect_pc, monitoring_task, command_task, orphans, age, Callbacks,
                    Supervisor, Controller, Config >>

\* RobotManager.connect in packet mode, up to the sleep of _test_connection:
\* the socket is created and the ping sent; a ping that raises ends connect().
ConnectBegin ==
    \E io_ok \in BOOLEAN :
        /\ protocol # "ros2"
        /\ connect_pc = "idle"
        /\ connect_pc' = IF io_ok THEN "probing" ELSE "idle"
        /\ Commit([Running EXCEPT !.socket = TRUE], "connect",
                  IF io_ok THEN "None" ELSE "False")
        /\ UNCHANGED << monitoring_task, command_task, orphans, heartbeat_age, robot_state, age, Callbacks, Supervisor, Controller, Config >>

\* connect() that re-initialises the safety state when the probe has passed.
ConnectFinish_reinitialises ==
    /\ connect_pc = "probing"
    /\ connect_pc' = "idle"
    /\ Commit([Running EXCEPT !.is_connected = TRUE, !.emergency_stop = FALSE],
              "connect", "True")
    /\ robot_state' = [robot_state EXCEPT !.is_connected = TRUE]
    /\ heartbeat_age' = 0
    /\ UNCHANGED << monitoring_task, command_task, orphans, age, Callbacks, Supervisor,
                    Controller, Config >>

\* RobotManager.connect in packet mode, after the sleep: the probe "passed".
ConnectFinish ==
    /\ connect_pc = "probing"
    /\ connect_pc' = "idle"
    /\ Commit([Running EXCEPT !.is_connected = TRUE], "connect", "True")
    /\ robot_state' = [robot_state EXCEPT !.is_connected = TRUE]
    /\ heartbeat_age' = 0
    /\ UNCHANGED << monitoring_task, command_task, orphans, age, Callbacks, Supervisor,
                    Controller, Config >>

\* disconnect() that returns as soon as its stop command is refused.
Disconnect_stops_on_refusal ==
    \E io_ok \in BOOLEAN :
        LET m1 == send_motion_command(Running, StopCommand, io_ok)
            m2 == IF protocol = "ros2"
                  THEN [m1 EXCEPT !.ros2_client =
                                     IF @ = "None" THEN "None" ELSE "shutdown"]
                  ELSE [m1 EXCEPT !.socket = FALSE]
        IN  IF m1.ret
            THEN /\ Commit([m2 EXCEPT !.is_connected = FALSE], "disconnect", "None")
                 /\ monitoring_task' = IF monitoring_task = "running" THEN "cancelled" ELSE monitoring_task
                 /\ command_task' = IF command_task = "running" THEN "cancelled" ELSE command_task
                 /\ robot_state' = [robot_state EXCEPT !.is_connected = FALSE]
                 /\ UNCHANGED << connect_pc, orphans, heartbeat_age, age, Callbacks, Supervisor,
                            Controller, Config >>
            ELSE /\ Commit(m1, "disconnect", "None")
                 /\ monitoring_task' = IF monitoring_task = "running" THEN "cancelled" ELSE monitoring_task
                 /\ command_task' = IF command_task = "running" THEN "cancelled" ELSE command_task
                 /\ UNCHANGED << robot_state, connect_pc, orphans, heartbeat_age, age,
                                 Callbacks, Supervisor, Controller, Config >>

\* RobotManager.disconnect
Disconnect ==
    \E io_ok \in BOOLEAN :
        LET m1 == send_motion_command(Running, StopCommand, io_ok)
            m2 == IF protocol = "ros2"
                  THEN [m1 EXCEPT !.ros2_client =
                                     IF @ = "None" THEN "None" ELSE "shutdown"]
                  ELSE [m1 EXCEPT !.socket = FALSE]
        IN  /\ Commit([m2 EXCEPT !.is_connected = FALSE], "disconnect", "None")
            /\ monitoring_task' = IF monitoring_task = "running" THEN "cancelled" ELSE monitoring_task
            /\ command_task' = IF command_task = "running" THEN "cancelled" ELSE command_task
            /\ robot_state' = [robot_state EXCEPT !.is_connected = FALSE]
            /\ UNCHANGED << connect_pc, orphans, heartbeat_age, age, Callbacks, Supervisor,
                            Controller, Config >>

\* RobotManager.start_monitoring
StartMonitoring ==
    /\ monitoring_task = "running" => orphans.monitoring < MaxOrphans
    /\ command_task = "running" => orphans.command < MaxOrphans
    /\ orphans' = [ monitoring |-> orphans.monitoring
                                     + (IF monitoring_task = "running" THEN 1 ELSE 0),
                    command |-> orphans.command
                                  + (IF command_task = "running" THEN 1 ELSE 0) ]
    /\ monitoring_task' = "running"
    /\ command_task' = "running"
    /\ Commit(Running, "start_monitoring", "None")
    /\ UNCHANGED << connect_pc, heartbeat_age, robot_state, age, Callbacks, Supervisor,
                    Controller, Config >>

\* start_monitoring() called while no loop task of an earlier call is alive.
StartMonitoringIdle ==
    /\ monitoring_task # "running"
    /\ command_task # "running"
    /\ StartMonitoring

\* RobotManager.register_state_callback by an observer.
RegisterStateCallback ==
    /\ Len(state_callbacks) < MaxCallbacks
    /\ state_callbacks' = Append(state_callbacks, "observer")
    /\ Commit(Running, "register_state_callback", "None")
    /\ UNCHANGED << connect_pc, monitoring_task, command_task, orphans, heartbeat_age, robot_state, age, error_callbacks,
                    Supervisor, Controller, Config >>

\* RobotManager.register_error_callback
RegisterErrorCallback ==
    /\ error_callbacks < MaxCallbacks
    /\ error_callbacks' = error_callbacks + 1
    /\ Commit(Running, "register_error_callback", "None")
    /\ UNCHANGED << connect_pc, monitoring_task, command_task, orphans, heartbeat_age, robot_state, age, state_callbacks,
                    Supervisor, Controller, Config >>

\* A caller (the API's /api/robot/move, a test) calls send_motion_command.
SendMotionCommand ==
    \E io_ok \in BOOLEAN :
        LET m == send_motion_command(Running, api_cmd, io_ok)
        IN  /\ Commit(m, "send_motion_command", PyBool(m.ret))
            /\ UNCHANGED << connect_pc, monitoring_task, command_task, orphans, heartbeat_age, robot_state, age,
                            Callbacks, Supervisor, Controller, Config >>

\* A caller (the API's /api/robot/emergency_stop) calls emergency_stop_robot.
EmergencyStopRobot ==
    \E io_ok \in BOOLEAN, f \in Failures :
        /\ LET m == emergency_stop_robot(RunningWith(f), io_ok)
           IN  Commit(m, "emergency_stop_robot", Outcome(m, "None"))
        /\ UNCHANGED << connect_pc, monitoring_task, command_task, orphans, heartbeat_age, robot_state, age,
                        Callbacks, Supervisor, Controller, Config >>

\* The body of RobotManager.stand_up and sit_down.  In ROS 2 mode the service
\* (call_stand, call_sit) is called when there is a client, and call_ok is
\* what the call reports; what it reports is logged and not looked at again.
\* In packet mode the mode packet is sent on the socket.  ret says whether the
\* mode of RobotState gets set.
mode_command(m, service, call_ok, io_ok) ==
    IF ~m.is_connected \/ m.emergency_stop
    THEN [m EXCEPT !.ret = FALSE]
    ELSE IF m.protocol = "ros2"
    THEN [ (IF m.ros2_client # "None"
            THEN Did(m, service, IF call_ok THEN "success" ELSE "failure", 0)
            ELSE m)
             EXCEPT !.ret = TRUE ]
    ELSE IF ~m.socket
    THEN [m EXCEPT !.ret = FALSE]
    ELSE IF ~io_ok
    THEN [m EXCEPT !.ret = FALSE]          \* sendto raised, caught at line 266 / 300
    ELSE [Did(m, "sendto", service, 0) EXCEPT !.ret = TRUE]

\* A caller calls RobotManager.stand_up.
StandUp ==
    \E call_ok \in BOOLEAN, io_ok \in BOOLEAN :
        LET m == mode_command(Running, "call_stand", call_ok, io_ok)
        IN  /\ Commit(m, "stand_up", PyBool(m.ret))
            /\ robot_state' = IF m.ret THEN [robot_state EXCEPT !.mode = "STAND"]
                                        ELSE robot_state
            /\ UNCHANGED << connect_pc, monitoring_task, command_task, orphans, heartbeat_age, age,
                            Callbacks, Supervisor, Controller, Config >>

\* A caller calls RobotManager.sit_down.
SitDown ==
    \E call_ok \in BOOLEAN, io_ok \in BOOLEAN :
        LET m == mode_command(Running, "call_sit", call_ok, io_ok)
        IN  /\ Commit(m, "sit_down", PyBool(m.ret))
            /\ robot_state' = IF m.ret THEN [robot_state EXCEPT !.mode = "SIT"]
                                        ELSE robot_state
            /\ UNCHANGED << connect_pc, monitoring_task, command_task, orphans, heartbeat_age, age,
                            Callbacks, Supervisor, Controller, Config >>

\* RobotManager._send_heartbeat: the packet goes out on the socket; without a
\* socket, or when sendto raises, the failure is logged.
send_heartbeat(m, io_ok) ==
    IF ~m.socket THEN m
    ELSE IF ~io_ok THEN Did(m, "sendto_failed", "heartbeat", 0)
    ELSE Did(m, "sendto", "heartbeat", 0)

\* One iteration of RobotManager._command_loop; due says whether more than a
\* second has passed since the last heartbeat.
command_iteration(m, due, io_ok) ==
    IF protocol # "ros2" /\ due THEN send_heartbeat(m, io_ok) ELSE m

\* One iteration of RobotManager._command_loop by the task command_task
\* names; elapsed holds what current_time - last_heartbeat may read.
command_loop(elapsed) ==
    \E e \in elapsed, io_ok \in BOOLEAN :
        LET due == e > HeartbeatPeriod
        IN  /\ command_task = "running"
            /\ IF ~is_connected
               THEN /\ command_task' = "done"
                    /\ heartbeat_age' = heartbeat_age
                    /\ Commit(Running, "command_loop", "None")
               ELSE /\ command_task' = command_task
                    /\ heartbeat_age' = IF protocol # "ros2" /\ due THEN 0 ELSE heartbeat_age
                    /\ Commit(command_iteration(Running, due, io_ok), "command_loop", "None")
            /\ UNCHANGED << connect_pc, monitoring_task, orphans, robot_state, age,
                            Callbacks, Supervisor, Controller, Config >>

\* The same iteration by a task whose handle was replaced: disconnect() does
\* not cancel it, and it leaves the loop when it finds the manager disconnected.
orphaned_command_loop(elapsed) ==
    \E e \in elapsed, io_ok \in BOOLEAN :
        LET due == e > HeartbeatPeriod
        IN  /\ orphans.command > 0
            /\ IF ~is_connected
               THEN /\ orphans' = [orphans EXCEPT !.command = @ - 1]
                    /\ heartbeat_age' = heartbeat_age
                    /\ Commit(Running, "command_loop", "None")
               ELSE /\ orphans' = orphans
                    /\ heartbeat_age' = IF protocol # "ros2" /\ due THEN 0 ELSE heartbeat_age
                    /\ Commit(command_iteration(Running, due, io_ok), "command_loop", "None")
            /\ UNCHANGED << connect_pc, monitoring_task, command_task, robot_state, age,
                            Callbacks, Supervisor, Controller, Config >>

\* The loop with the clock left open: any time may have passed since the last
\* heartbeat.
CommandLoopTick == command_loop(0..HeartbeatAgeCap)

\* The loop reading the clock.
CommandLoopTickTimed == command_loop({heartbeat_age})

OrphanedCommandLoopTick == orphaned_command_loop({heartbeat_age})

\* A second passes.
HeartbeatTimePasses ==
    /\ heartbeat_age < HeartbeatAgeCap
    /\ heartbeat_age' = heartbeat_age + 1
    /\ UNCHANGED << protocol, ros2_client, socket, is_connected, emergency_stop,
                    connect_pc, monitoring_task, command_task, orphans, robot_state, age,
                    emergency_stop_active, active_alerts, last_op, ret, out, actions,
                    trace, repeated, Callbacks, Supervisor, Controller, Config >>

(***************************************************************************)
(* The monitoring loop of the manager and the passing of time.             *)
(***************************************************************************)
AgeCap == TimeoutThreshold + 1

\* Time passes: by at least the threshold, so that age is 0, the threshold
\* (not yet a timeout) or beyond it.  The stored alerts keep their
\* timestamps and so grow older (their age is followed up to the threshold).
TimePasses ==
    \E d \in {TimeoutThreshold, AgeCap} :
        /\ age < AgeCap
        /\ age' = Min(age + d, AgeCap)
        /\ heartbeat_age' = HeartbeatAgeCap
        /\ active_alerts' = { [a EXCEPT !.elapsed = Min(@ + d, TimeoutThreshold)] :
                                 a \in active_alerts }
        /\ UNCHANGED << protocol, ros2_client, socket, is_connected, emergency_stop,
                        connect_pc, monitoring_task, command_task, orphans, robot_state,
                        emergency_stop_active, last_op, ret, out, actions, trace,
                        repeated, Callbacks, Supervisor, Controller, Config >>

Sample(b, t, r, p) == [battery_level |-> b, temperature |-> t, roll |-> r, pitch |-> p]

\* Samples the ROS 2 subscriptions may have stored (ROS2ClientState): battery
\* nominal, at the critical level, and just above it.
BatterySamples ==
    { Sample(80, 40, 0, 0),
      Sample(DefaultBatteryCritical, 40, 0, 0),
      Sample(DefaultBatteryCritical + 1, 40, 0, 0) }

\* What the simulated fallback of _update_robot_state can produce: battery
\* between its floor and its base, temperature 35..40, level orientation.
SimSamples ==
    { Sample(b, SimTemperatureLow, 0, 0) : b \in {SimBatteryBase, SimBatteryFloor} }

\* _update_robot_state that leaves the simulated state marked as connected.
update_robot_state_marks_connected(fresh, sample) ==
    IF protocol = "ros2" /\ ros2_client # "None" /\ fresh
    THEN [ battery_level |-> sample.battery_level, temperature |-> sample.temperature,
           roll |-> sample.roll, pitch |-> sample.pitch, is_connected |-> TRUE,
           mode |-> robot_state.mode ]
    ELSE [ battery_level |-> sample.battery_level, temperature |-> sample.temperature,
           roll |-> 0, pitch |-> 0, is_connected |-> TRUE,
           mode |-> robot_state.mode ]

\* RobotManager._update_robot_state: a fresh ROS 2 sample if there is one,
\* the simulated state (marked is_connected = False) otherwise.
update_robot_state(fresh, sample) ==
    IF protocol = "ros2" /\ ros2_client # "None" /\ fresh
    THEN [ battery_level |-> sample.battery_level, temperature |-> sample.temperature,
           roll |-> sample.roll, pitch |-> sample.pitch, is_connected |-> TRUE,
           mode |-> robot_state.mode ]
    ELSE [ battery_level |-> sample.battery_level, temperature |-> sample.temperature,
           roll |-> 0, pitch |-> 0, is_connected |-> FALSE,
           mode |-> robot_state.mode ]

\* for callback in self.state_callbacks: await callback(self.robot_state),
\* inside the try of the loop's body: the first callback that raises (fail,
\* 0: none does) ends the iteration.
notify_state_callbacks(m, fail) ==
    LET last == IF fail = 0 THEN Len(state_callbacks) ELSE fail
    IN  [m EXCEPT !.trace = @ \o [k \in 1..last |-> Event("state_callback", "", k)]]

\* One iteration of RobotManager._monitoring_loop; ros_samples is what the
\* robot may have published.  The supervisor's own callback does nothing and
\* cannot raise; an observer's may.  The loop catches what a callback raises.
monitoring_iteration(ros_samples) ==
    /\ \E fresh \in BOOLEAN :
         LET real == protocol = "ros2" /\ ros2_client # "None" /\ fresh
             latest == IF fresh THEN "fresh" ELSE "none"
         IN  /\ (fresh => real)
             /\ \E sample \in (IF real THEN ros_samples ELSE SimSamples) :
                    robot_state' = update_robot_state(fresh, sample)
             /\ \E fail \in {0} \cup { k \in DOMAIN state_callbacks :
                                            state_callbacks[k] = "observer" } :
                  Commit(notify_state_callbacks(
                             Did(Running, "latest_sample", latest, 0), fail),
                         "monitoring_loop", "None")
    /\ age' = 0

\* The loop as run by the task monitoring_task names.
monitoring_loop(ros_samples) ==
    /\ monitoring_task = "running"
    /\ IF ~is_connected
       THEN /\ monitoring_task' = "done"
            /\ UNCHANGED << robot_state, age >>
            /\ Commit(Running, "monitoring_loop", "None")
       ELSE /\ monitoring_task' = monitoring_task
            /\ monitoring_iteration(ros_samples)
    /\ UNCHANGED << connect_pc, command_task, orphans, heartbeat_age, Callbacks,
                    Supervisor, Controller, Config >>

\* The loop as run by a task whose handle was replaced: disconnect() does not
\* cancel it, and it leaves the loop when it finds the manager disconnected.
orphaned_monitoring_loop(ros_samples) ==
    /\ orphans.monitoring > 0
    /\ IF ~is_connected
       THEN /\ orphans' = [orphans EXCEPT !.monitoring = @ - 1]
            /\ UNCHANGED << robot_state, age >>
            /\ Commit(Running, "monitoring_loop", "None")
       ELSE /\ orphans' = orphans
            /\ monitoring_iteration(ros_samples)
    /\ UNCHANGED << connect_pc, monitoring_task, command_task, heartbeat_age, Callbacks,
                    Supervisor, Controller, Config >>

MonitoringTick == monitoring_loop(BatterySamples)

\* The monitoring loop while the robot reports nominal values.
MonitoringTickNominal == monitoring_loop({Sample(80, 40, 0, 0)})

\* The monitoring loop while the robot reports the sample of this run.
MonitoringTickPublished == monitoring_loop({published})

OrphanedMonitoringTick == orphaned_monitoring_loop({published})

\* ROS2Client._on_battery, _on_temperature, _on_odom: the states of the
\* client's shared sample after one more subscriber callback has stored its
\* reading (each takes the client's lock for its own writes).
subscriber_callbacks(st) ==
    { [st EXCEPT !.battery_level = DefaultBatteryCritical],
      [st EXCEPT !.temperature = DefaultTemperatureWarning],
      [st EXCEPT !.roll = DefaultMaxRoll, !.pitch = DefaultMaxPitch] }

\* An iteration of the monitoring loop in ROS 2 mode with a fresh sample, while
\* the spin thread delivers two subscriber callbacks: _update_robot_state
\* reads battery, temperature and orientation one after the other without the
\* client's lock, so each read sees the sample as it is at that moment.  The
\* record of the iteration holds the states the sample went through.
MonitoringTickRacing ==
    /\ monitoring_task = "running"
    /\ is_connected /\ protocol = "ros2" /\ ros2_client # "None"
    /\ \E s1 \in subscriber_callbacks(published) :
         \E s2 \in subscriber_callbacks(s1) :
           \E i \in 1..3 : \E j \in i..3 : \E k \in j..3 :
             LET st == << published, s1, s2 >>
                 read == Sample(st[i].battery_level, st[j].temperature,
                                st[k].roll, st[k].pitch)
                 seen == [n \in 1..3 |-> Event("client_state", st[n], n)]
                 m == Did(Running, "latest_sample", "fresh", 0)
             IN  /\ robot_state' = update_robot_state(TRUE, read)
                 /\ \E fail \in {0} \cup { c \in DOMAIN state_callbacks :
                                                state_callbacks[c] = "observer" } :
                      Commit(notify_state_callbacks([m EXCEPT !.trace = @ \o seen], fail),
                             "monitoring_loop", "None")
    /\ age' = 0
    /\ UNCHANGED << connect_pc, monitoring_task, command_task, orphans, heartbeat_age,
                    Callbacks, Supervisor, Controller, Config >>

(***************************************************************************)
(* SafetyMonitor.                                                          *)
(***************************************************************************)
\* SafetyAlert(id, level, message, action, timestamp): the message is its
\* text and the number formatted into it, the timestamp is kept as the time
\* elapsed since it was taken.
SafetyAlert(id, level, text, value, action) ==
    [ id |-> id, level |-> level, message |-> << text, value >>, action |-> action,
      elapsed |-> 0, resolved |-> FALSE ]

\* Alerts kept in a list that every handled alert is appended to.
store_alert_appends(m, alert) ==
    Did([m EXCEPT !.active_alerts = @ \cup {alert}], "store", alert.id, 0)

\* self.active_alerts[alert.id] = alert
store_alert(m, alert) ==
    Did([m EXCEPT !.active_alerts = { a \in @ : a.id # alert.id } \cup {alert}],
        "store", alert.id, 0)

\* SafetyMonitor._notify_alert_callbacks: each callback is awaited inside its
\* own try, one that raises is logged and the next one is called.
notify_alert_callbacks(m, alert) ==
    [m EXCEPT !.trace = @ \o [k \in 1..alert_callbacks |-> Event("notify", alert.id, k)]]

\* SafetyMonitor.emergency_stop
safety_emergency_stop(m, reason, io_ok) ==
    IF m.emergency_stop_active
    THEN m
    ELSE LET alert == SafetyAlert("emergency_stop", "emergency", reason[1], reason[2],
                                  "emergency_stop")
             m1 == store_alert([m EXCEPT !.emergency_stop_active = TRUE], alert)
             m2 == emergency_stop_robot(m1, io_ok)
         IN  IF m2.exc THEN m2 ELSE notify_alert_callbacks(m2, alert)

\* _execute_safety_action whose Stop goes through the manager's emergency stop.
execute_safety_action_stop_latches(m, alert, io_ok) ==
    LET m1 == Did([m EXCEPT !.actions = @ \cup {alert.action}], "execute", alert.id, 0)
    IN  IF alert.action = "emergency_stop"
        THEN safety_emergency_stop(m1, alert.message, io_ok)
        ELSE IF alert.action = "stop"
        THEN emergency_stop_robot(m1, io_ok)
        ELSE m1

\* SafetyMonitor._execute_safety_action
execute_safety_action(m, alert, io_ok) ==
    LET m1 == Did([m EXCEPT !.actions = @ \cup {alert.action}], "execute", alert.id, 0)
    IN  IF alert.action = "emergency_stop"
        THEN safety_emergency_stop(m1, alert.message, io_ok)
        ELSE IF alert.action = "stop"
        THEN send_motion_command(m1, StopCommand, io_ok)
        ELSE m1

\* SafetyMonitor._handle_alert
handle_alert(m, alert, io_ok) ==
    LET m1 == store_alert(m, alert)
        m2 == execute_safety_action(m1, alert, io_ok)
    IN  IF m2.exc THEN m2 ELSE notify_alert_callbacks(m2, alert)

\* SafetyMonitor._check_connection
check_connection(m, state, io_ok) ==
    IF ~state.is_connected
    THEN handle_alert(m, SafetyAlert("connection_lost", "critical",
                                     "Robot connection lost", 0, "stop"), io_ok)
    ELSE m

\* _check_battery comparing with < where the code has <=.
check_battery_strict(m, state, io_ok) ==
    LET battery_level == state.battery_level
        critical_level == Get(safety_config.battery_critical, DefaultBatteryCritical)
        warning_level == critical_level * 2
    IN  IF battery_level < critical_level
        THEN handle_alert(m, SafetyAlert("battery_critical", "critical",
                 "Critical battery level", battery_level, "emergency_stop"), io_ok)
        ELSE IF battery_level <= warning_level
        THEN handle_alert(m, SafetyAlert("battery_low", "warning",
                 "Low battery level", battery_level, "monitor"), io_ok)
        ELSE m

\* _check_battery taking boundaries.min_battery_level for its critical level.
check_battery_min_level(m, state, io_ok) ==
    LET battery_level == state.battery_level
        critical_level == Get(safety_config.min_battery_level, DefaultMinBatteryLevel)
        warning_level == critical_level * 2
    IN  IF battery_level <= critical_level
        THEN handle_alert(m, SafetyAlert("battery_critical", "critical",
                 "Critical battery level", battery_level, "emergency_stop"), io_ok)
        ELSE IF battery_level <= warning_level
        THEN handle_alert(m, SafetyAlert("battery_low", "warning",
                 "Low battery level", battery_level, "monitor"), io_ok)
        ELSE m

\* SafetyMonitor._check_battery
check_battery(m, state, io_ok) ==
    LET battery_level == state.battery_level
        critical_level == Get(safety_config.battery_critical, DefaultBatteryCritical)
        warning_level == critical_level * 2
    IN  IF battery_level <= critical_level
        THEN handle_alert(m, SafetyAlert("battery_critical", "critical",
                 "Critical battery level", battery_level, "emergency_stop"), io_ok)
        ELSE IF battery_level <= warning_level
        THEN handle_alert(m, SafetyAlert("battery_low", "warning",
                 "Low battery level", battery_level, "monitor"), io_ok)
        ELSE m

\* SafetyMonitor._check_temperature
check_temperature(m, state, io_ok) ==
    LET temperature == state.temperature
        warning_temp == Get(safety_config.temperature_warning, DefaultTemperatureWarning)
        critical_temp == Get(safety_config.max_temperature, DefaultMaxTemperature)
    IN  IF temperature >= critical_temp
        THEN handle_alert(m, SafetyAlert("temperature_critical", "critical",
                 "Critical temperature", temperature, "emergency_stop"), io_ok)
        ELSE IF temperature >= warning_temp
        THEN handle_alert(m, SafetyAlert("temperature_high", "warning",
                 "High temperature", temperature, "slow_down"), io_ok)
        ELSE m

\* SafetyMonitor._check_orientation
check_orientation(m, state, io_ok) ==
    LET m1 == IF Abs(state.roll) > DefaultMaxRoll
              THEN handle_alert(m, SafetyAlert("roll_limit", "critical",
                       "Roll angle exceeded", state.roll, "emergency_stop"), io_ok)
              ELSE m
    IN  IF m1.exc THEN m1
        ELSE IF Abs(state.pitch) > DefaultMaxPitch
        THEN handle_alert(m1, SafetyAlert("pitch_limit", "critical",
                 "Pitch angle exceeded", state.pitch, "emergency_stop"), io_ok)
        ELSE m1

\* SafetyMonitor._check_communication_timeout
check_communication_timeout(m, time_since_update, io_ok) ==
    IF time_since_update > TimeoutThreshold
    THEN handle_alert(m, SafetyAlert("communication_timeout", "critical",
             "Communication timeout", time_since_update, "stop"), io_ok)
    ELSE m

\* SafetyMonitor._perform_safety_checks: the checks in order; an exception
\* leaving one of them skips the ones after it.
perform_safety_checks(m, state, time_since_update, io_ok) ==
    LET m1 == check_connection(m, state, io_ok)
        m2 == IF m1.exc THEN m1 ELSE check_battery(m1, state, io_ok)
        m3 == IF m2.exc THEN m2 ELSE check_temperature(m2, state, io_ok)
        m4 == IF m3.exc THEN m3 ELSE check_orientation(m3, state, io_ok)
    IN  IF m4.exc THEN m4 ELSE check_communication_timeout(m4, time_since_update, io_ok)

Manager == << connect_pc, monitoring_task, command_task, orphans, heartbeat_age,
             robot_state, age, Callbacks >>

\* SafetyMonitor.start: the loop is created and _on_robot_state_update is
\* registered with the manager.
SafetyStart ==
    /\ ~safety_running
    /\ safety_running' = TRUE
    /\ state_callbacks' = Append(state_callbacks, "supervisor")
    /\ Commit(Running, "safety_start", "None")
    /\ UNCHANGED << safety_enabled, alert_callbacks, connect_pc, monitoring_task, command_task, orphans, heartbeat_age,
                    robot_state, age, error_callbacks, Controller, Config >>

\* SafetyMonitor.enable_safety_monitoring
EnableSafetyMonitoring ==
    /\ safety_enabled' = TRUE
    /\ Commit(Running, "enable_safety_monitoring", "None")
    /\ UNCHANGED << safety_running, alert_callbacks, Manager, Controller, Config >>

\* SafetyMonitor.disable_safety_monitoring
DisableSafetyMonitoring ==
    /\ safety_enabled' = FALSE
    /\ Commit(Running, "disable_safety_monitoring", "None")
    /\ UNCHANGED << safety_running, alert_callbacks, Manager, Controller, Config >>

\* SafetyMonitor.register_alert_callback
RegisterAlertCallback ==
    /\ alert_callbacks < MaxCallbacks
    /\ alert_callbacks' = alert_callbacks + 1
    /\ Commit(Running, "register_alert_callback", "None")
    /\ UNCHANGED << safety_enabled, safety_running, Manager, Controller, Config >>

\* The supervisor's loop running its checks whether or not they are enabled.
SafetyTick_always_checks ==
    \E io_ok \in BOOLEAN, f \in Failures :
        /\ safety_running
        /\ Commit(perform_safety_checks(RunningWith(f), robot_state, age, io_ok),
                  "safety_tick", "None")
        /\ UNCHANGED << Supervisor, Manager, Controller, Config >>

\* One iteration of SafetyMonitor._monitoring_loop; an exception leaving the
\* checks is caught and logged by the loop.
SafetyTick ==
    \E io_ok \in BOOLEAN, f \in Failures :
        /\ safety_running
        /\ Commit(IF safety_enabled
                  THEN perform_safety_checks(RunningWith(f), robot_state, age, io_ok)
                  ELSE Running,
                  "safety_tick", "None")
        /\ UNCHANGED << Supervisor, Manager, Controller, Config >>

\* A caller (operator) calls SafetyMonitor.emergency_stop.
SafetyEmergencyStop ==
    \E io_ok \in BOOLEAN, f \in Failures :
        LET m == safety_emergency_stop(RunningWith(f),
                                       << "Manual emergency stop", 0 >>, io_ok)
        IN  /\ ~emergency_stop_active      \* returns at once when already active
            /\ Commit(m, "safety_emergency_stop", Outcome(m, "None"))
            /\ UNCHANGED << Supervisor, Manager, Controller, Config >>

\* SafetyMonitor.reset_emergency_stop
ResetEmergencyStop ==
    /\ emergency_stop_active               \* returns at once when not active
    /\ Commit([Running EXCEPT
                  !.emergency_stop_active = FALSE,
                  !.active_alerts = { IF a.id = "emergency_stop"
                                      THEN [a EXCEPT !.resolved = TRUE] ELSE a : a \in @ }],
              "reset_emergency_stop", "None")
    /\ UNCHANGED << Supervisor, Manager, Controller, Config >>

(***************************************************************************)
(* MotionController.                                                       *)
(***************************************************************************)
max_linear_vel == Get(motion_config.max_linear_velocity, DefaultMaxLinearVelocity)
max_angular_vel == Get(motion_config.max_angular_velocity, DefaultMaxAngularVelocity)

\* max(-limit, min(limit, v))
Clamp(v, limit) == Max(-limit, Min(limit, v))

\* MotionController.move_velocity
move_velocity(m, linear_x, linear_y, angular_z, io_ok) ==
    send_motion_command(m,
        MotionCommand(Clamp(linear_x, max_linear_vel),
                      Clamp(linear_y, max_linear_vel),
                      Clamp(angular_z, max_angular_vel)),
        io_ok)

\* MotionController.stop_motion
stop_motion(m, io_ok) == send_motion_command(m, StopCommand, io_ok)

TrajectoryPoint(x, y, yaw, timestamp) ==
    [x |-> x, y |-> y, yaw |-> yaw, timestamp |-> timestamp]

\* A straight line along x of n points one second apart, step units apart.
Line(n, step) == [i \in 1..n |-> TrajectoryPoint((i - 1) * step, 0, 0, i - 1)]

\* The trajectories handed to execute_trajectory: a slow one (velocity 1) and a
\* fast one (velocity MaxVel) of every length up to MaxPoints.
Trajectories == { Line(n, step) : n \in 0..MaxPoints, step \in {1, MaxVel} }

ControllerState ==
    [ trajectory |-> current_trajectory, index |-> trajectory_index,
      executing |-> is_executing_trajectory ]

CommitController(c) ==
    /\ current_trajectory' = c.trajectory
    /\ trajectory_index' = c.index
    /\ is_executing_trajectory' = c.executing

\* MotionController.start
ControllerStart ==
    /\ ~control_running
    /\ control_running' = TRUE
    /\ Commit(Running, "controller_start", "None")
    /\ UNCHANGED << current_trajectory, trajectory_index, is_executing_trajectory,
                    stop_pc, Supervisor, Manager, Config >>

\* _execute_trajectory_step that leaves is_executing_trajectory set at the end.
execute_trajectory_step_keeps_flag(m, c, io_ok) ==
    IF c.trajectory = << >> \/ c.index >= Len(c.trajectory)
    THEN << stop_motion(m, io_ok), c >>
    ELSE LET current_point == c.trajectory[c.index + 1]
             next_index == c.index + 1
             next_point == c.trajectory[next_index + 1]
             dt == next_point.timestamp - current_point.timestamp
             linear_x == (next_point.x - current_point.x) \div dt
             linear_y == (next_point.y - current_point.y) \div dt
             angular_z == (next_point.yaw - current_point.yaw) \div dt
             m1 == IF next_index < Len(c.trajectory) /\ dt > 0
                   THEN move_velocity(
                            Did(m, "move_velocity",
                                MotionCommand(linear_x, linear_y, angular_z), 0),
                            linear_x, linear_y, angular_z, io_ok)
                   ELSE m
         IN  << m1, [c EXCEPT !.index = @ + 1] >>

\* MotionController._execute_trajectory_step; c is the controller's
\* [trajectory, index, executing].  Returns << m, c >>.
execute_trajectory_step(m, c, io_ok) ==
    IF c.trajectory = << >> \/ c.index >= Len(c.trajectory)
    THEN << stop_motion(m, io_ok), [c EXCEPT !.executing = FALSE] >>
    ELSE LET current_point == c.trajectory[c.index + 1]
             next_index == c.index + 1
             next_point == c.trajectory[next_index + 1]
             dt == next_point.timestamp - current_point.timestamp
             linear_x == (next_point.x - current_point.x) \div dt
             linear_y == (next_point.y - current_point.y) \div dt
             angular_z == (next_point.yaw - current_point.yaw) \div dt
             m1 == IF next_index < Len(c.trajectory) /\ dt > 0
                   THEN move_velocity(
                            Did(m, "move_velocity",
                                MotionCommand(linear_x, linear_y, angular_z), 0),
                            linear_x, linear_y, angular_z, io_ok)
                   ELSE m
         IN  << m1, [c EXCEPT !.index = @ + 1] >>

\* One iteration of MotionController._control_loop with a trajectory to step.
ControlLoopTick ==
    \E io_ok \in BOOLEAN :
        /\ control_running
        /\ is_executing_trajectory /\ current_trajectory # << >>
        /\ LET r == execute_trajectory_step(Running, ControllerState, io_ok)
           IN  /\ Commit(r[1], "control_loop", "None")
               /\ CommitController(r[2])
        /\ UNCHANGED << control_running, stop_pc, Supervisor, Manager, Config >>

\* A caller calls MotionController.move_velocity.
MoveVelocity ==
    \E io_ok \in BOOLEAN :
        LET m == move_velocity(Running, api_cmd.linear_x, api_cmd.linear_y,
                               api_cmd.angular_z, io_ok)
        IN  /\ Commit(m, "move_velocity", PyBool(m.ret))
            /\ UNCHANGED << Supervisor, Manager, Controller, Config >>

\* MotionController.stop_trajectory
stop_trajectory(m, c, io_ok) ==
    << stop_motion(m, io_ok),
       [c EXCEPT !.executing = FALSE, !.trajectory = << >>, !.index = 0] >>

\* MotionController.execute_trajectory(trajectory).  The points passed in
\* enter the record of the run.  held: the list passed in is the list object
\* the controller holds as current_trajectory, so that what stop_trajectory
\* does to that list (clear(), in place) is done to the argument; the
\* assignment of line 158 keeps the object, whatever is left in it.
execute_trajectory(m, c, trajectory, held, io_ok) ==
    LET m0 == Did(m, "execute_trajectory", trajectory, 0)
        r == IF c.executing
             THEN stop_trajectory(m0, c, io_ok)
             ELSE << m0, c >>
    IN  << [r[1] EXCEPT !.ret = TRUE],
           [ trajectory |-> IF held THEN r[2].trajectory ELSE trajectory,
             index |-> 0, executing |-> TRUE ] >>

\* A caller calls MotionController.execute_trajectory with a list of its own.
ExecuteTrajectory ==
    \E io_ok \in BOOLEAN, trajectory \in Trajectories :
        LET r == execute_trajectory(Running, ControllerState, trajectory, FALSE, io_ok)
        IN  /\ Commit(r[1], "execute_trajectory", PyBool(r[1].ret))
            /\ CommitController(r[2])
            /\ UNCHANGED << control_running, stop_pc, Supervisor, Manager, Config >>

\* A caller calls execute_trajectory with the list the controller holds: the
\* list it handed over before and kept, or controller.current_trajectory.
ExecuteTrajectoryHeld ==
    \E io_ok \in BOOLEAN :
        LET r == execute_trajectory(Running, ControllerState, current_trajectory,
                                    TRUE, io_ok)
        IN  /\ Commit(r[1], "execute_trajectory", PyBool(r[1].ret))
            /\ CommitController(r[2])
            /\ UNCHANGED << control_running, stop_pc, Supervisor, Manager, Config >>

\* MotionController.stop that returns without its last stop_motion.
ControllerStopFinish_silent ==
    /\ stop_pc = "awaiting"
    /\ stop_pc' = "idle"
    /\ Commit(Running, "controller_stop", "None")
    /\ UNCHANGED << current_trajectory, trajectory_index, is_executing_trajectory,
                    control_running, Supervisor, Manager, Config >>

\* MotionController.stop, after its await of the cancelled task: stop_motion.
ControllerStopFinish ==
    \E io_ok \in BOOLEAN :
        /\ stop_pc = "awaiting"
        /\ stop_pc' = "idle"
        /\ Commit(stop_motion(Running, io_ok), "controller_stop", "None")
        /\ UNCHANGED << current_trajectory, trajectory_index, is_executing_trajectory,
                        control_running, Supervisor, Manager, Config >>

\* MotionController.stop: running is cleared and the task of the loop is
\* cancelled.  While that task is alive stop() suspends on it (the loop gets
\* the CancelledError where it sleeps, and ends); with no task, or a task that
\* has ended, it goes on to stop_motion at once.
ControllerStopBegin ==
    \E io_ok \in BOOLEAN :
        /\ stop_pc = "idle"
        /\ control_running' = FALSE
        /\ IF control_running
           THEN /\ stop_pc' = "awaiting"
                /\ Commit(Running, "controller_stop", "None")
           ELSE /\ stop_pc' = "idle"
                /\ Commit(stop_motion(Running, io_ok), "controller_stop", "None")
        /\ UNCHANGED << current_trajectory, trajectory_index, is_executing_trajectory,
                        Supervisor, Manager, Config >>

\* A caller calls MotionController.stop_trajectory.
StopTrajectory ==
    \E io_ok \in BOOLEAN :
        LET r == stop_trajectory(Running, ControllerState, io_ok)
        IN  /\ Commit(r[1], "stop_trajectory", "None")
            /\ CommitController(r[2])
            /\ UNCHANGED << control_running, stop_pc, Supervisor, Manager, Config >>

(***************************************************************************)
(* The planner.  Its numbers are fractions [n, d] in lowest terms with     *)
(* d > 0, lengths in metres, angles in radians, times in seconds, and its  *)
(* arithmetic is the arithmetic of the source carried out exactly.         *)
(***************************************************************************)
RECURSIVE GCD(_, _)
GCD(a, b) == IF b = 0 THEN a ELSE GCD(b, a % b)

Rat(n, d) == LET g == GCD(Abs(n), d) IN [n |-> n \div g, d |-> d \div g]
Whole(k) == Rat(k, 1)
RAdd(a, b) == Rat(a.n * b.d + b.n * a.d, a.d * b.d)
RSub(a, b) == Rat(a.n * b.d - b.n * a.d, a.d * b.d)
RMul(a, b) == Rat(a.n * b.n, a.d * b.d)
\* a / b for b other than zero
RDiv(a, b) == IF b.n > 0 THEN Rat(a.n * b.d, a.d * b.n) ELSE Rat(-(a.n * b.d), a.d * (-b.n))
RAbs(a) == [n |-> Abs(a.n), d |-> a.d]
RLess(a, b) == a.n * b.d < b.n * a.d
RMax(a, b) == IF RLess(a, b) THEN b ELSE a
\* int(a): towards zero
RInt(a) == IF a.n >= 0 THEN a.n \div a.d ELSE -((-a.n) \div a.d)
\* math.sqrt(a), for the squares of fractions
RSqrt(a) ==
    Rat(CHOOSE r \in 0..a.n : r * r = a.n, CHOOSE r \in 1..a.d : r * r = a.d)

Pose(x, y, yaw) == [x |-> Whole(x), y |-> Whole(y), yaw |-> Whole(yaw)]

PoseOf(point) == [x |-> point.x, y |-> point.y, yaw |-> point.yaw]

\* MotionController._smooth_step: t * t * (3.0 - 2.0 * t)
smooth_step(t) == RMul(RMul(t, t), RSub(Whole(3), RMul(Whole(2), t)))

\* max_angular_vel * 0.5 in radians per second (the limit is kept in halves).
HalfAngularLimit == Rat(max_angular_vel, 4)

\* _plan_trajectory divides by max_speed and by max_angular_vel * 0.5.
PlanRaises(max_speed) == max_speed.n = 0 \/ HalfAngularLimit.n = 0

\* _plan_trajectory that leaves the angular time out of the time budget.
plan_trajectory_linear_time(start, end, max_speed) ==
    LET dx == RSub(end.x, start.x)
        dy == RSub(end.y, start.y)
        dyaw == RSub(end.yaw, start.yaw)
        distance == RSqrt(RAdd(RMul(dx, dx), RMul(dy, dy)))
        linear_time == RDiv(distance, max_speed)
        total_time == RMax(linear_time, Whole(1))
        num_points == Max(10, RInt(RMul(total_time, Whole(10))))
    IN  [ i \in 1..(num_points + 1) |->
            LET t == Rat(i - 1, num_points)
                smooth_t == smooth_step(t)
            IN  TrajectoryPoint(RAdd(start.x, RMul(dx, smooth_t)),
                                RAdd(start.y, RMul(dy, smooth_t)),
                                RAdd(start.yaw, RMul(dyaw, smooth_t)),
                                RMul(t, total_time)) ]

\* MotionController._plan_trajectory, where it does not raise.
plan_trajectory(start, end, max_speed) ==
    LET dx == RSub(end.x, start.x)
        dy == RSub(end.y, start.y)
        dyaw == RSub(end.yaw, start.yaw)
        distance == RSqrt(RAdd(RMul(dx, dx), RMul(dy, dy)))
        angular_distance == RAbs(dyaw)
        linear_time == RDiv(distance, max_speed)
        angular_time == RDiv(angular_distance, HalfAngularLimit)
        total_time == RMax(RMax(linear_time, angular_time), Whole(1))
        num_points == Max(10, RInt(RMul(total_time, Whole(10))))
    IN  [ i \in 1..(num_points + 1) |->
            LET t == Rat(i - 1, num_points)
                smooth_t == smooth_step(t)
            IN  TrajectoryPoint(RAdd(start.x, RMul(dx, smooth_t)),
                                RAdd(start.y, RMul(dy, smooth_t)),
                                RAdd(start.yaw, RMul(dyaw, smooth_t)),
                                RMul(t, total_time)) ]

\* move_to_position whose planning is done outside its try.
move_to_position_unguarded(m, c, start, target, max_speed, io_ok) ==
    LET m0 == Did(m, "move_to_position",
                  [start |-> start, target |-> target, max_speed |-> max_speed], 0)
    IN  IF PlanRaises(max_speed)
        THEN << [m0 EXCEPT !.exc = TRUE], c >>
        ELSE execute_trajectory(m0, c, plan_trajectory(start, target, max_speed),
                                FALSE, io_ok)

\* MotionController.move_to_position; start is the pose RobotState holds.  The
\* arguments enter the record of the run.  A planner that raises (a division
\* by zero) is caught at line 147.
move_to_position(m, c, start, target, max_speed, io_ok) ==
    LET m0 == Did(m, "move_to_position",
                  [start |-> start, target |-> target, max_speed |-> max_speed], 0)
    IN  IF PlanRaises(max_speed)
        THEN << [m0 EXCEPT !.ret = FALSE], c >>
        ELSE execute_trajectory(m0, c, plan_trajectory(start, target, max_speed),
                                FALSE, io_ok)

\* The pose RobotState holds when move_to_position is called, the target and
\* the speed it is called with.
Plan(start, target, max_speed) ==
    [start |-> start, target |-> target, max_speed |-> max_speed]

\* move_to_position(1.0, 0.0, 0.0, max_speed=1.0) from the pose of RobotState().
DefaultPlan == Plan(Pose(0, 0, 0), Pose(1, 0, 0), Whole(1))

\* Plans that stay in place, go along x forwards and backwards, go across
\* with a time budget that is no multiple of 0.1 s, turn for longer than they
\* travel, and ask for speed 0.
Plans ==
    { Plan(Pose(0, 0, 0), Pose(0, 0, 0), Whole(1)),
      DefaultPlan,
      Plan(Pose(3, 0, 0), Pose(1, 0, 0), Rat(3, 2)),
      Plan(Pose(3, 0, 0), Pose(0, 4, 0), Whole(3)),
      Plan(Pose(0, 0, 0), Pose(3, 0, 2), Whole(3)),
      Plan(Pose(0, 0, 0), Pose(1, 0, 0), Whole(0)) }

\* A caller calls MotionController.move_to_position.
MoveToPosition ==
    \E io_ok \in BOOLEAN :
        LET r == move_to_position(Running, ControllerState, plan.start, plan.target,
                                  plan.max_speed, io_ok)
        IN  /\ Commit(r[1], "move_to_position", Outcome(r[1], PyBool(r[1].ret)))
            /\ CommitController(r[2])
            /\ UNCHANGED << control_running, stop_pc, Supervisor, Manager, Config >>

\* MotionController.change_gait: a command of zero velocities that carries the
\* gait; the gait enters no check on the way.
change_gait(m, io_ok) == send_motion_command(m, StopCommand, io_ok)

\* A caller calls MotionController.change_gait.
ChangeGait ==
    \E io_ok \in BOOLEAN :
        LET m == change_gait(Running, io_ok)
        IN  /\ Commit(m, "change_gait", PyBool(m.ret))
            /\ UNCHANGED << Supervisor, Manager, Controller, Config >>

\* MotionController.set_step_height: a command of zero velocities that carries
\* the height, clamped to 0.05 .. 0.2 m; the height enters no check on the way.
set_step_height(m, io_ok) == send_motion_command(m, StopCommand, io_ok)

\* A caller calls MotionController.set_step_height.
SetStepHeight ==
    \E io_ok \in BOOLEAN :
        LET m == set_step_height(Running, io_ok)
        IN  /\ Commit(m, "set_step_height", PyBool(m.ret))
            /\ UNCHANGED << Supervisor, Manager, Controller, Config >>

(***************************************************************************)
(* Specifications.                                                         *)
(***************************************************************************)
RobotConfig(max_speed, max_angular_speed) ==
    [ ip_address |-> {"192.168.123.161"}, udp_port |-> {8082},
      max_speed |-> max_speed, max_angular_speed |-> max_angular_speed ]

MotionConfig(max_linear_velocity, max_angular_velocity) ==
    [ max_linear_velocity |-> max_linear_velocity,
      max_angular_velocity |-> max_angular_velocity ]

\* safety.health_monitoring.alert_thresholds.battery_critical and
\* .temperature_warning, safety.boundaries.max_temperature and
\* .min_battery_level.
SafetyConfig(battery_critical, temperature_warning, max_temperature, min_battery_level) ==
    [ battery_critical |-> battery_critical,
      temperature_warning |-> temperature_warning,
      max_temperature |-> max_temperature,
      min_battery_level |-> min_battery_level ]

\* The state after RobotManager, SafetyMonitor and MotionController are constructed.
Constructed ==
    /\ protocol \in {"udp", "ros2"}
    /\ ros2_client = "None"
    /\ socket = FALSE
    /\ is_connected = FALSE
    /\ emergency_stop = FALSE
    /\ connect_pc = "idle"
    /\ monitoring_task = "None"
    /\ command_task = "None"
    /\ orphans = NoOrphans
    /\ heartbeat_age = HeartbeatAgeCap
    /\ robot_state = InitialRobotState
    /\ age = AgeCap
    /\ state_callbacks = << >>
    /\ error_callbacks = 0
    /\ emergency_stop_active = FALSE
    /\ active_alerts = {}
    /\ alert_callbacks = 0
    /\ safety_enabled = TRUE
    /\ safety_running = FALSE
    /\ current_trajectory = << >>
    /\ trajectory_index = 0
    /\ is_executing_trajectory = FALSE
    /\ control_running = FALSE
    /\ stop_pc = "idle"
    /\ last_op = "init"
    /\ ret = "None"
    /\ out = << >>
    /\ actions = {}
    /\ trace = << >>
    /\ repeated = FALSE

\* The state after initialize() and connect() have returned True on the
\* constructed objects, in ROS 2 mode or in packet mode.
Connected(p) ==
    /\ protocol = p
    /\ ros2_client = IF p = "ros2" THEN "ready" ELSE "None"
    /\ socket = (p # "ros2")
    /\ is_connected = TRUE
    /\ emergency_stop = FALSE
    /\ connect_pc = "idle"
    /\ monitoring_task = "None"
    /\ command_task = "None"
    /\ orphans = NoOrphans
    /\ heartbeat_age = 0
    /\ robot_state = [InitialRobotState EXCEPT !.is_connected = TRUE]
    /\ age = AgeCap
    /\ state_callbacks = << >>
    /\ error_callbacks = 0
    /\ emergency_stop_active = FALSE
    /\ active_alerts = {}
    /\ alert_callbacks = 0
    /\ safety_enabled = TRUE
    /\ safety_running = FALSE
    /\ current_trajectory = << >>
    /\ trajectory_index = 0
    /\ is_executing_trajectory = FALSE
    /\ control_running = FALSE
    /\ stop_pc = "idle"
    /\ last_op = "connect"
    /\ ret = "True"
    /\ out = << >>
    /\ actions = {}
    /\ trace = << >>
    /\ repeated = FALSE

\* Connection lifecycle, monitoring loop and the operator's emergency stop
\* and reset under the default limits; the caller submits one command within
\* the limits.
Init ==
    /\ robot_config = RobotConfig({}, {})
    /\ motion_config = MotionConfig({}, {})
    /\ safety_config = SafetyConfig({}, {}, {}, {})
    /\ api_cmd = MotionCommand(1, 0, 0)
    /\ published = Sample(80, 40, 0, 0)
    /\ plan = DefaultPlan
    /\ Constructed

Next ==
    \/ Initialize
    \/ ConnectRos2
    \/ ConnectBegin
    \/ ConnectFinish
    \/ Disconnect
    \/ StartMonitoringIdle
    \/ MonitoringTick
    \/ TimePasses
    \/ SendMotionCommand
    \/ EmergencyStopRobot
    \/ SafetyEmergencyStop
    \/ ResetEmergencyStop

Spec == Init /\ [][Next]_vars

\* Every issuer of commands together: the callers of the manager, the
\* supervisor's loop and the controller's loop, while the robot reports
\* nominal values.
NextMotion ==
    \/ Initialize
    \/ ConnectRos2
    \/ ConnectBegin
    \/ ConnectFinish
    \/ StartMonitoringIdle
    \/ MonitoringTickNominal
    \/ SendMotionCommand
    \/ EmergencyStopRobot
    \/ SafetyStart
    \/ SafetyTick
    \/ ResetEmergencyStop
    \/ ControllerStart
    \/ ControlLoopTick
    \/ MoveVelocity
    \/ ExecuteTrajectory
    \/ StopTrajectory

SpecMotion == Init /\ [][NextMotion]_vars

\* The controller and its callers over a manager that connects over ROS 2 or
\* packets: trajectories handed over, replaced, stopped and stepped, and the
\* loop started and stopped.
NextController ==
    \/ Initialize
    \/ ConnectRos2
    \/ ConnectBegin
    \/ ConnectFinish
    \/ EmergencyStopRobot
    \/ ControllerStart
    \/ ControllerStopBegin
    \/ ControllerStopFinish
    \/ ControlLoopTick
    \/ MoveVelocity
    \/ ExecuteTrajectory
    \/ ExecuteTrajectoryHeld
    \/ StopTrajectory

SpecController == Init /\ [][NextController]_vars

\* The public operations of the controller under every state of the manager;
\* the loop does not run, and the trajectories stay as they are handed over.
NextPlan ==
    \/ Initialize
    \/ ConnectRos2
    \/ ConnectBegin
    \/ ConnectFinish
    \/ EmergencyStopRobot
    \/ MoveVelocity
    \/ MoveToPosition
    \/ ExecuteTrajectory
    \/ StopTrajectory
    \/ ChangeGait
    \/ SetStepHeight

InitPlan ==
    /\ robot_config = RobotConfig({}, {})
    /\ motion_config = MotionConfig({}, {})
    /\ safety_config = SafetyConfig({}, {}, {}, {})
    /\ api_cmd = MotionCommand(1, 0, 0)
    /\ published = Sample(80, 40, 0, 0)
    /\ plan \in Plans
    /\ Constructed

SpecPlan == InitPlan /\ [][NextPlan]_vars

\* A trajectory is handed over when none is being executed.
ExecuteTrajectoryIdle == ~is_executing_trajectory /\ ExecuteTrajectory

\* Trajectories that are handed over and then left alone, neither replaced
\* nor stopped, while the loop, once started, keeps running: the task of the
\* loop is scheduled every 50 ms, so a step that stays possible is taken.
NextTrajectory ==
    \/ Initialize
    \/ ConnectRos2
    \/ ConnectBegin
    \/ ConnectFinish
    \/ EmergencyStopRobot
    \/ ControllerStart
    \/ ControlLoopTick
    \/ MoveVelocity
    \/ ExecuteTrajectoryIdle

SpecTrajectory == Init /\ [][NextTrajectory]_vars /\ WF_vars(ControlLoopTick)

\* The command path alone, for every submitted triple and for limits that are
\* configured: equal in manager and controller, or different.
LimitConfigs ==
    { << RobotConfig({}, {}), MotionConfig({}, {}) >>,
      << RobotConfig({2}, {2}), MotionConfig({2}, {2}) >>,
      << RobotConfig({1}, {2}), MotionConfig({2}, {3}) >>,
      << RobotConfig({2}, {3}), MotionConfig({1}, {2}) >> }

InitLimits ==
    /\ \E c \in LimitConfigs : robot_config = c[1] /\ motion_config = c[2]
    /\ safety_config = SafetyConfig({}, {}, {}, {})
    /\ api_cmd \in AllCommands
    /\ published = Sample(80, 40, 0, 0)
    /\ plan = DefaultPlan
    /\ Constructed

NextLimits ==
    \/ Initialize
    \/ ConnectRos2
    \/ ConnectBegin
    \/ ConnectFinish
    \/ Disconnect
    \/ SendMotionCommand
    \/ EmergencyStopRobot
    \/ MoveVelocity

SpecLimits == InitLimits /\ [][NextLimits]_vars

\* The supervisor over a manager that has been initialised and connected in
\* ROS 2 mode.  The robot publishes one sample per run, with the battery around the critical and the warning level
\* or the temperature around the warning and the critical threshold; the
\* thresholds are the defaults, the defaults with min_battery_level = 20, or
\* configured ones.
SafetySamples ==
    { Sample(b, 40, 0, 0) : b \in { DefaultBatteryCritical - 1, DefaultBatteryCritical,
                                    DefaultBatteryCritical + 1, 2 * DefaultBatteryCritical,
                                    2 * DefaultBatteryCritical + 1 } }
    \cup { Sample(80, t, 0, 0) : t \in { DefaultTemperatureWarning - 1,
                                         DefaultTemperatureWarning,
                                         DefaultMaxTemperature - 1,
                                         DefaultMaxTemperature } }
    \cup { Sample(DefaultBatteryCritical, DefaultMaxTemperature, 0, 0) }

SafetyConfigs ==
    { SafetyConfig({}, {}, {}, {}),
      SafetyConfig({}, {}, {}, {20}),
      SafetyConfig({DefaultBatteryCritical + 1}, {DefaultTemperatureWarning - 1},
                   {DefaultMaxTemperature - 1}, {}) }

InitSafety ==
    /\ robot_config = RobotConfig({}, {})
    /\ motion_config = MotionConfig({}, {})
    /\ safety_config \in SafetyConfigs
    /\ api_cmd = MotionCommand(1, 0, 0)
    /\ published \in SafetySamples
    /\ plan = DefaultPlan
    /\ Connected("ros2")

NextSafety ==
    \/ StartMonitoringIdle
    \/ MonitoringTickPublished
    \/ TimePasses
    \/ SafetyStart
    \/ SafetyTick
    \/ ResetEmergencyStop
    \/ EnableSafetyMonitoring
    \/ DisableSafetyMonitoring

SpecSafety == InitSafety /\ [][NextSafety]_vars

\* The life of a manager from its construction, with every operation of the
\* API and both loops, for a complete configuration and for configurations
\* that lack a key the packet protocol requires.
RobotConfigWithout(key) == [RobotConfig({}, {}) EXCEPT ![key] = {}]

LifecycleConfigs ==
    { RobotConfig({}, {}), RobotConfigWithout("ip_address"),
      RobotConfigWithout("udp_port") }

InitLifecycle ==
    /\ robot_config \in LifecycleConfigs
    /\ motion_config = MotionConfig({}, {})
    /\ safety_config = SafetyConfig({}, {}, {}, {})
    /\ api_cmd = MotionCommand(1, 0, 0)
    /\ published = Sample(80, 40, 0, 0)
    /\ plan = DefaultPlan
    /\ Constructed

NextLifecycle ==
    \/ Initialize
    \/ ConnectRos2
    \/ ConnectBegin
    \/ ConnectFinish
    \/ Disconnect
    \/ StartMonitoringIdle
    \/ MonitoringTickPublished
    \/ CommandLoopTick
    \/ RegisterStateCallback
    \/ SendMotionCommand
    \/ StandUp
    \/ SitDown
    \/ EmergencyStopRobot

SpecLifecycle == InitLifecycle /\ [][NextLifecycle]_vars

(***************************************************************************)
(* The callbacks: a connected manager on which state, error and alert      *)
(* callbacks get registered while the monitoring loop and the supervisor   *)
(* run; any registered callback written by a caller may raise.  The robot  *)
(* reports a critical battery together with a critical temperature.        *)
(***************************************************************************)
CallbackSamples ==
    { Sample(DefaultBatteryCritical, DefaultMaxTemperature, 0, 0) }

InitCallbacks ==
    /\ robot_config = RobotConfig({}, {})
    /\ motion_config = MotionConfig({}, {})
    /\ safety_config = SafetyConfig({}, {}, {}, {})
    /\ api_cmd = MotionCommand(1, 0, 0)
    /\ published \in CallbackSamples
    /\ plan = DefaultPlan
    /\ Connected("ros2")

NextCallbacks ==
    \/ RegisterStateCallback
    \/ RegisterErrorCallback
    \/ RegisterAlertCallback
    \/ StartMonitoringIdle
    \/ MonitoringTickPublished
    \/ SafetyStart
    \/ SafetyTick
    \/ EmergencyStopRobot
    \/ ResetEmergencyStop

SpecCallbacks == InitCallbacks /\ [][NextCallbacks]_vars

\* The loop tasks and the clock of the heartbeat: start_monitoring() may be
\* called any number of times, and the tasks it replaced run on.
NextTasks ==
    \/ Initialize
    \/ ConnectRos2
    \/ ConnectBegin
    \/ ConnectFinish
    \/ Disconnect
    \/ StartMonitoring
    \/ MonitoringTickPublished
    \/ OrphanedMonitoringTick
    \/ CommandLoopTickTimed
    \/ OrphanedCommandLoopTick
    \/ HeartbeatTimePasses

SpecTasks == Init /\ [][NextTasks]_vars

\* The monitoring loop reading the sample of the ROS 2 client while the
\* subscriptions deliver.
NextSample ==
    \/ Initialize
    \/ ConnectRos2
    \/ Disconnect
    \/ StartMonitoringIdle
    \/ MonitoringTickPublished
    \/ MonitoringTickRacing
    \/ RegisterStateCallback

SpecSample == Init /\ [][NextSample]_vars

(***************************************************************************)
(* Properties.                                                             *)
(***************************************************************************)
Range(seq) == { seq[i] : i \in DOMAIN seq }

\* The configured maxima of the manager, read as _validate_motion_command reads them.
WithinLimits(command) ==
    /\ Abs(command.linear_x) <= Get(robot_config.max_speed, DefaultMaxSpeed)
    /\ Abs(command.linear_y) <= Get(robot_config.max_speed, DefaultMaxSpeed)
    /\ Abs(command.angular_z) <= Get(robot_config.max_angular_speed, DefaultMaxAngularSpeed)

\* C1: a step hands a command to the transport only from a state in which the
\* manager is connected and its latch is clear, whoever issues the command
\* (caller, supervisor loop, control loop); send_motion_command called while
\* disconnected or latched hands over nothing and returns false.
C1_DispatchIsGated ==
    [][ /\ (out' # << >> => is_connected /\ ~emergency_stop)
        /\ (last_op' = "send_motion_command" /\ (~is_connected \/ emergency_stop)
              => out' = << >> /\ ret' = "False") ]_vars

\* C1 witness: the control loop stepped a trajectory of a connected, latched
\* manager and nothing reached the transport.
C1_Witness ==
    /\ last_op = "control_loop" /\ trajectory_index = 1
    /\ is_connected /\ emergency_stop /\ socket
    /\ out = << >>

\* The active transport has what it needs to carry a command.
TransportUsable == IF protocol = "ros2" THEN ros2_client = "ready" ELSE socket

\* C2: emergency_stop_robot() on a connected manager sets the latch and hands
\* an all-zero stop command to the transport (whenever the transport is
\* usable, the call can end with the latch set and the stop command sent).
C2_StopCommandDispatched ==
    (is_connected /\ ~emergency_stop /\ TransportUsable)
        => ENABLED (EmergencyStopRobot /\ emergency_stop' /\ StopCommand \in Range(out'))

\* C3: once the manager's latch is set it stays set, and send_motion_command
\* returns false and sends nothing, through every disconnect(), connect(),
\* start_monitoring() and command call; only the explicit re-initialisation
\* of the safety state (initialize()) clears it, reconnecting never does.
C3_LatchSurvivesReconnect ==
    [][ emergency_stop /\ last_op' # "initialize"
          => /\ emergency_stop'
             /\ (last_op' = "send_motion_command" => ret' = "False" /\ out' = << >>) ]_vars

\* C3 witness: a latched manager has reconnected over the packet transport.
C3_Witness ==
    last_op = "connect" /\ ret = "True" /\ is_connected /\ emergency_stop /\ socket

\* C4: after reset_emergency_stop() has cleared an emergency stop, a connected
\* manager with a usable transport accepts a command within the limits again.
C4_ResetReopensCommands ==
    (last_op = "reset_emergency_stop" /\ is_connected /\ TransportUsable
        /\ WithinLimits(api_cmd))
        => ENABLED (SendMotionCommand /\ ret' = "True")

\* C5: a supervisor tick that checks a battery_level at or below the critical
\* level leaves emergency_stop_active true, and emergency_stop_active stays
\* true through every step but reset_emergency_stop(), whatever the battery
\* level becomes.
C5_BatteryLatch ==
    [][ /\ (last_op' = "safety_tick" /\ safety_enabled
              /\ robot_state.battery_level
                   <= Get(safety_config.battery_critical, DefaultBatteryCritical)
              => emergency_stop_active')
        /\ (emergency_stop_active /\ last_op' # "reset_emergency_stop"
              => emergency_stop_active') ]_vars

\* C5 witness: a tick has run all its checks on a fresh sample with the
\* battery back above the critical level, and the latch is still set.
C5_Witness ==
    /\ last_op = "safety_tick" /\ safety_enabled /\ emergency_stop_active
    /\ robot_state.is_connected
    /\ robot_state.battery_level
         > 2 * Get(safety_config.battery_critical, DefaultBatteryCritical)

NonZero(commands) == { c \in Range(commands) : c # StopCommand }

\* C6: once the supervisor has executed an EmergencyStop action, the control
\* loop's next step of the trajectory in flight hands no velocity command to
\* the transport.
C6_EmergencyStopOverrides ==
    [][ "emergency_stop" \in actions /\ is_executing_trajectory
          /\ last_op' = "control_loop"
          => NonZero(out') = {} ]_vars

\* C7: once a supervisor tick has executed a Stop action (connection_lost,
\* communication_timeout) and no other, and its zero command has gone out,
\* the control loop's next step of the trajectory in flight hands no non-zero
\* velocity command to the transport.
C7_StopOverridesTrajectory ==
    [][ actions = {"stop"} /\ StopCommand \in Range(out) /\ is_executing_trajectory
          /\ last_op' = "control_loop"
          => NonZero(out') = {} ]_vars

\* C8 as claimed: for a triple within the manager's limits send_motion_command
\* returns true if and only if the manager is connected and not latched.
C8_TrueIffConnectedUnlatched ==
    [][ last_op' = "send_motion_command" /\ WithinLimits(api_cmd)
          => (ret' = "True" <=> is_connected /\ ~emergency_stop) ]_vars

\* C8 amended: for a triple within the manager's limits send_motion_command
\* returns true if and only if the manager is connected, not latched and,
\* with the packet transport, the command went out on the socket; it never
\* returns true otherwise, and with the ROS 2 transport it always does.
C8_TrueIffAccepted ==
    [][ last_op' = "send_motion_command" /\ WithinLimits(api_cmd)
          => (ret' = "True" <=>
                /\ is_connected /\ ~emergency_stop
                /\ (protocol = "ros2" \/ (socket /\ out' = << api_cmd >>))) ]_vars

\* C8 witness: a non-zero command within the limits was accepted and sent.
C8_Witness ==
    /\ last_op = "send_motion_command" /\ ret = "True"
    /\ api_cmd # StopCommand /\ out = << api_cmd >>

\* C9: a triple with a component beyond its configured maximum is refused by
\* send_motion_command: it returns false and nothing, clamped or not, reaches
\* the transport.
C9_BeyondLimitsRejected ==
    [][ last_op' = "send_motion_command" /\ ~WithinLimits(api_cmd)
          => ret' = "False" /\ out' = << >> ]_vars

\* C9 witness: a connected, unlatched manager with a socket refused a command
\* whose only fault is its angular velocity.
C9_Witness ==
    /\ last_op = "send_motion_command" /\ ret = "False" /\ out = << >>
    /\ is_connected /\ ~emergency_stop /\ socket /\ protocol = "udp"
    /\ api_cmd.linear_x = 0 /\ api_cmd.linear_y = 0
    /\ Abs(api_cmd.angular_z) =
         Get(robot_config.max_angular_speed, DefaultMaxAngularSpeed) + 1

\* C10: on a connected, unlatched manager with a usable transport,
\* move_velocity of any triple can succeed: it returns true and the command
\* delivered is the triple clamped to the controller's maxima.
C10_ClampedCommandAccepted ==
    (is_connected /\ ~emergency_stop /\ TransportUsable)
        => ENABLED (MoveVelocity /\ ret' = "True"
                      /\ out' = << MotionCommand(Clamp(api_cmd.linear_x, max_linear_vel),
                                                 Clamp(api_cmd.linear_y, max_linear_vel),
                                                 Clamp(api_cmd.angular_z, max_angular_vel)) >>)

\* C11: disconnect() called on a connected manager, latched or not, hands one
\* final all-zero stop command to the transport (whenever the transport is
\* able to carry one).
C11_DisconnectSendsStop ==
    (is_connected /\ TransportUsable)
        => ENABLED (Disconnect /\ StopCommand \in Range(out'))

\* The end state of disconnect(): manager and RobotState marked disconnected,
\* the active transport released, the loops cancelled.
Disconnected ==
    /\ ~is_connected
    /\ ~robot_state.is_connected
    /\ ~socket
    /\ (protocol = "ros2" => ros2_client \in {"None", "shutdown"})
    /\ monitoring_task \in {"None", "done", "cancelled"}
    /\ command_task \in {"None", "done", "cancelled"}

Count(t, e) == Cardinality({ i \in DOMAIN t : t[i] = e })

\* C13: an iteration of the monitoring loop on a connected manager hands the
\* iteration's state to every registered state callback, whether or not one of
\* them raises, and leaves the loop running.
C13_StateCallbacksIsolated ==
    [][ last_op' = "monitoring_loop" /\ is_connected
          => /\ monitoring_task' = "running"
             /\ \A k \in DOMAIN state_callbacks :
                    Count(trace', Event("state_callback", "", k)) = 1 ]_vars

\* C14: emergency_stop_robot() calls every registered error callback exactly
\* once with "emergency_stop", whether or not an earlier one raises, and
\* returns to its caller without raising.
C14_ErrorCallbacksIsolated ==
    [][ last_op' = "emergency_stop_robot"
          => /\ ret' # "raise"
             /\ \A k \in 1..error_callbacks :
                    Count(trace', Event("error_callback", "emergency_stop", k)) = 1 ]_vars

\* The reading that the check raising the alert id formats into its message.
Reading(id, state, time_since_update) ==
    CASE id \in {"battery_critical", "battery_low"} -> state.battery_level
      [] id \in {"temperature_critical", "temperature_high"} -> state.temperature
      [] id = "roll_limit" -> state.roll
      [] id = "pitch_limit" -> state.pitch
      [] id = "communication_timeout" -> time_since_update
      [] OTHER -> 0

\* The step is an iteration of the supervisor's loop (time stands still in it).
SafetyTicked == last_op' = "safety_tick" /\ age' = age

\* C15: active_alerts never holds two entries with the same id, and after a
\* tick every alert the tick handled is the one entry under its id, with the
\* timestamp of this tick, unresolved, and (for the alerts of the checks) the
\* message of this tick's reading.
C15_OneAlertPerId ==
    [][ /\ \A a, b \in active_alerts' : a.id = b.id => a = b
        /\ (SafetyTicked
              => \A i \in DOMAIN trace' :
                   trace'[i].ev = "store"
                     => \E a \in active_alerts' :
                          /\ a.id = trace'[i].id
                          /\ a.elapsed = 0
                          /\ ~a.resolved
                          /\ (a.id # "emergency_stop"
                                => a.message[2] = Reading(a.id, robot_state, age))) ]_vars

\* C15 witness: battery_critical was handled on the first tick with the
\* initial reading 0 (the emergency_stop alert it caused still carries that
\* reading) and has been handled again with the published reading, which is
\* the one entry now stored under the id.
C15_Witness ==
    /\ last_op = "safety_tick"
    /\ \E e \in active_alerts :
          e.id = "emergency_stop" /\ e.message = << "Critical battery level", 0 >>
    /\ \E a \in active_alerts :
          /\ a.id = "battery_critical" /\ a.elapsed = 0
          /\ a.message = << "Critical battery level", DefaultBatteryCritical >>
    /\ Cardinality({ a \in active_alerts : a.id = "battery_critical" }) = 1

\* In the record t of a run the alert stored at position i is then executed
\* and then notified, once each and in registration order, to every alert
\* callback.
HandledInOrder(t, i) ==
    /\ i < Len(t)
    /\ t[i + 1] = Event("execute", t[i].id, 0)
    /\ \A k \in 1..alert_callbacks :
          /\ Count(t, Event("notify", t[i].id, k)) = 1
          /\ \E j \in DOMAIN t :
                /\ j > i + 1
                /\ t[j] = Event("notify", t[i].id, k)
                /\ (k > 1 => t[j - 1] = Event("notify", t[i].id, k - 1))

\* C16: every alert a supervisor tick handles is first stored, then has its
\* action executed, then is notified to every registered alert callback,
\* whatever the callbacks do.
C16_StoreExecuteNotify ==
    [][ SafetyTicked
          => \A i \in DOMAIN trace' :
                (trace'[i].ev = "store" /\ trace'[i].id # "emergency_stop")
                    => HandledInOrder(trace', i) ]_vars

\* The step handled an alert with this id.
Raised(id) == \E i \in DOMAIN trace' : trace'[i] = Event("store", id, 0)

\* The step left an alert with this id, level and action in active_alerts.
Stored(id, level, action) ==
    \E a \in active_alerts' : a.id = id /\ a.level = level /\ a.action = action

\* In the record t the action of the alert id did nothing: what follows its
\* execution is its notification or the next check's alert, never a command
\* or an emergency stop.
NoEffect(t, id) ==
    \A i \in DOMAIN t :
        t[i] = Event("execute", id, 0)
            => \/ i = Len(t)
               \/ t[i + 1].ev = "notify"
               \/ t[i + 1].ev = "store" /\ t[i + 1].id # "emergency_stop"

\* The step set neither latch unless it ran an emergency stop.
LatchesKept ==
    ~Raised("emergency_stop")
        => /\ emergency_stop' = emergency_stop
           /\ emergency_stop_active' = emergency_stop_active

\* C17 as stated: battery_critical when the battery is below the critical
\* level, battery_low when it is not below the critical level but below twice
\* the critical level, neither otherwise.
C17_BatteryBelow ==
    [][ SafetyTicked /\ safety_enabled
          => LET battery_level == robot_state.battery_level
                 critical_level == Get(safety_config.battery_critical,
                                       DefaultBatteryCritical)
             IN  /\ battery_level < critical_level
                      => /\ Raised("battery_critical") /\ ~Raised("battery_low")
                         /\ emergency_stop_active'
                 /\ (battery_level >= critical_level
                        /\ battery_level < 2 * critical_level)
                      => /\ Raised("battery_low") /\ ~Raised("battery_critical")
                         /\ NoEffect(trace', "battery_low")
                 /\ battery_level >= 2 * critical_level
                      => ~Raised("battery_critical") /\ ~Raised("battery_low") ]_vars

\* C17, amended: battery_critical (Critical, EmergencyStop) and the latch
\* when the battery is at or below the critical level, battery_low (Warning,
\* Monitor) with no command and no latch when it is above the critical level
\* and at or below twice the critical level, neither otherwise; the critical
\* level is alert_thresholds.battery_critical, so with min_battery_level = 20
\* and the battery at 9 the tick raises battery_critical and latches.
C17_BatteryAtOrBelow ==
    [][ SafetyTicked /\ safety_enabled
          => LET battery_level == robot_state.battery_level
                 critical_level == Get(safety_config.battery_critical,
                                       DefaultBatteryCritical)
             IN  /\ battery_level <= critical_level
                      => /\ Raised("battery_critical") /\ ~Raised("battery_low")
                         /\ Stored("battery_critical", "critical", "emergency_stop")
                         /\ emergency_stop_active'
                 /\ (battery_level > critical_level
                        /\ battery_level <= 2 * critical_level)
                      => /\ Raised("battery_low") /\ ~Raised("battery_critical")
                         /\ Stored("battery_low", "warning", "monitor")
                         /\ NoEffect(trace', "battery_low")
                         /\ LatchesKept
                 /\ battery_level > 2 * critical_level
                      => ~Raised("battery_critical") /\ ~Raised("battery_low")
                 /\ (safety_config.min_battery_level = {20} /\ battery_level = 9)
                      => /\ Raised("battery_critical")
                         /\ Stored("battery_critical", "critical", "emergency_stop")
                         /\ emergency_stop_active' ]_vars

\* C17 witness: a tick has checked a battery exactly at the critical level,
\* battery_critical is stored with that reading and the supervisor is latched.
C17_Witness ==
    /\ last_op = "safety_tick" /\ age = 0
    /\ robot_state.battery_level
         = Get(safety_config.battery_critical, DefaultBatteryCritical)
    /\ \E a \in active_alerts :
          /\ a.id = "battery_critical" /\ a.elapsed = 0
          /\ a.message[2] = robot_state.battery_level
    /\ emergency_stop_active

\* C18: a tick raises temperature_critical (Critical, EmergencyStop) and
\* latches when the temperature is at or above the critical maximum, raises
\* temperature_high (Warning, SlowDown) with no command and no latch when it
\* is at or above the warning level and below the critical maximum, and
\* raises neither below the warning level.
C18_TemperatureCheck ==
    [][ SafetyTicked /\ safety_enabled
          => LET temperature == robot_state.temperature
                 warning_temp == Get(safety_config.temperature_warning,
                                     DefaultTemperatureWarning)
                 critical_temp == Get(safety_config.max_temperature,
                                      DefaultMaxTemperature)
             IN  /\ temperature >= critical_temp
                      => /\ Raised("temperature_critical") /\ ~Raised("temperature_high")
                         /\ Stored("temperature_critical", "critical", "emergency_stop")
                         /\ emergency_stop_active'
                 /\ (temperature >= warning_temp /\ temperature < critical_temp)
                      => /\ Raised("temperature_high") /\ ~Raised("temperature_critical")
                         /\ Stored("temperature_high", "warning", "slow_down")
                         /\ NoEffect(trace', "temperature_high")
                         /\ LatchesKept
                 /\ temperature < warning_temp
                      => ~Raised("temperature_critical") /\ ~Raised("temperature_high") ]_vars

\* In the record t the action of the alert id sent one all-zero command and
\* nothing else.
StoppedOnce(t, id) ==
    \A i \in DOMAIN t :
        t[i] = Event("execute", id, 0)
            => /\ i < Len(t)
               /\ t[i + 1] = Event("send_motion_command", "all_zero", 0)
               /\ \/ i + 1 = Len(t)
                  \/ t[i + 2].ev = "notify"
                  \/ t[i + 2].ev = "store" /\ t[i + 2].id # "emergency_stop"

\* C19: a tick raises communication_timeout (Critical, Stop) exactly when more
\* than 5 seconds have passed since last_update (which the initial
\* last_update of 0 always makes true), and the alert sets no latch.
C19_CommunicationTimeout ==
    [][ SafetyTicked /\ safety_enabled
          => /\ Raised("communication_timeout") <=> age > TimeoutThreshold
             /\ Raised("communication_timeout")
                   => /\ Stored("communication_timeout", "critical", "stop")
                      /\ StoppedOnce(trace', "communication_timeout")
                      /\ LatchesKept ]_vars

\* The ids of the alerts whose action the step executed, by action.
Executed(action) ==
    { a.id : a \in { b \in active_alerts' :
                        /\ b.action = action
                        /\ \E i \in DOMAIN trace' :
                              trace'[i] = Event("execute", b.id, 0) } }

\* C20: executing a Stop action calls send_motion_command exactly once, with
\* the all-zero command, and executing a Monitor or SlowDown action calls
\* nothing; a tick that executes only such actions changes neither latch.
C20_StopMonitorSlowDown ==
    [][ SafetyTicked
          => /\ \A id \in Executed("stop") : StoppedOnce(trace', id)
             /\ \A id \in Executed("monitor") \cup Executed("slow_down") :
                    NoEffect(trace', id)
             /\ (Executed("emergency_stop") = {}
                   => /\ emergency_stop' = emergency_stop
                      /\ emergency_stop_active' = emergency_stop_active) ]_vars

\* C20 witness: a tick on an unlatched system has executed a Stop and a
\* SlowDown action; one all-zero command went out and nothing is latched.
C20_Witness ==
    /\ last_op = "safety_tick"
    /\ actions = {"stop", "slow_down"}
    /\ out = << StopCommand >>
    /\ ~emergency_stop /\ ~emergency_stop_active

\* C21: a supervisor tick while safety monitoring is disabled runs no check:
\* it stores no alert, executes no action, calls nothing, sends no command and
\* leaves active_alerts and both latches as they were (a set latch stays set).
C21_DisabledTicksDoNothing ==
    [][ SafetyTicked /\ ~safety_enabled
          => /\ trace' = << >> /\ out' = << >> /\ actions' = {}
             /\ active_alerts' = active_alerts
             /\ emergency_stop_active' = emergency_stop_active
             /\ emergency_stop' = emergency_stop ]_vars

\* C21 witness: a tick has run with monitoring disabled and the supervisor
\* latched, at a time when the communication timeout has passed, and no
\* communication_timeout alert was raised.
C21_Witness ==
    /\ last_op = "safety_tick" /\ ~safety_enabled
    /\ emergency_stop_active /\ emergency_stop
    /\ age > TimeoutThreshold
    /\ trace = << >>
    /\ \A a \in active_alerts : a.id # "communication_timeout"

\* What a mode operation reports and does, read from the step that ran it.
ModeOperations ==
    [ stand_up |-> [service |-> "call_stand", mode |-> "STAND"],
      sit_down |-> [service |-> "call_sit", mode |-> "SIT"] ]

ServiceSucceeded(t, service) ==
    \E i \in DOMAIN t : t[i].ev = service /\ t[i].id = "success"

\* C22: stand_up() and sit_down() return false and leave RobotState.mode as it
\* is when the manager is not connected or the latch is set; in ROS 2 mode
\* they return true exactly when the call of the named service reported
\* success, and only then does the mode become STAND or SIT.
C22_ModeFollowsService ==
    [][ \A op \in DOMAIN ModeOperations :
          last_op' = op
            => /\ (~is_connected \/ emergency_stop
                     => ret' = "False" /\ robot_state'.mode = robot_state.mode)
               /\ (is_connected /\ ~emergency_stop /\ protocol = "ros2"
                     => /\ ret' = "True"
                          <=> ServiceSucceeded(trace', ModeOperations[op].service)
                        /\ IF ServiceSucceeded(trace', ModeOperations[op].service)
                           THEN robot_state'.mode = ModeOperations[op].mode
                           ELSE robot_state'.mode = robot_state.mode) ]_vars

\* The ROS 2 set-up of initialize() has failed and the manager fell back.
FellBack == ros2_client = "failed"

\* Every event of the run recorded in t is a packet handed to the socket.
PacketsOnly(t) == \A i \in DOMAIN t : t[i].ev \in {"sendto", "sendto_failed"}

\* C23: when the ROS 2 set-up fails, initialize() still returns true and the
\* protocol is 'udp' from then on; every later connect, motion command,
\* stand/sit and heartbeat goes the packet way (connect() creates the socket
\* and succeeds only after the probe; the others succeed only by a packet on
\* the socket), and the failed ROS 2 client is never called.
C23_FallbackToPackets ==
    [][ /\ (FellBack' /\ ~FellBack => last_op' = "initialize" /\ ret' = "True")
        /\ (FellBack' => protocol' = "udp")
        /\ (FellBack => FellBack')
        /\ (FellBack /\ last_op' = "connect"
              => /\ connect_pc = "idle" => socket'
                 /\ ret' = "True" => connect_pc = "probing")
        /\ (FellBack /\ last_op' = "send_motion_command" /\ ret' = "True"
              => socket /\ out' = << api_cmd >>)
        /\ (FellBack /\ last_op' = "send_motion_command" /\ ~socket
              => ret' = "False")
        /\ (FellBack /\ last_op' \in DOMAIN ModeOperations
              => /\ PacketsOnly(trace')
                 /\ ret' = "True" => socket /\ trace' # << >>)
        /\ (FellBack /\ last_op' = "command_loop"
              => PacketsOnly(trace') /\ (trace' # << >> => socket)) ]_vars

C23_Witness ==
    /\ FellBack /\ protocol = "udp"
    /\ last_op = "stand_up" /\ ret = "True"
    /\ trace = << Event("sendto", "call_stand", 0) >>
    /\ command_task = "running"

\* C24: with the packet protocol selected and ip_address or udp_port missing
\* from the configuration, initialize() returns false without raising and the
\* manager never becomes connected: a connect() that follows fails, without
\* raising, too.
C24_MissingKeyNeverConnects ==
    [][ protocol = "udp" /\ ~validate_config
          => /\ (last_op' = "initialize" => ret' = "False")
             /\ (last_op' = "connect" => ret' \in {"None", "False"})
             /\ ~is_connected' ]_vars

\* The points passed to execute_trajectory in the run recorded in t, as they
\* were when it was called.
PassedIn(t) == t[1].id

\* C25: whatever list is passed in (a list of the caller's own, the list
\* being executed, a list the caller has kept), once execute_trajectory
\* returns true the active trajectory is the sequence passed in, unmodified,
\* the cursor is 0 and is_executing_trajectory is true, and a trajectory that
\* was in flight got its all-zero stop before the new one was installed.
C25_InstallsWhatWasPassed ==
    [][ last_op' = "execute_trajectory" /\ ret' = "True"
          => /\ current_trajectory' = PassedIn(trace')
             /\ trajectory_index' = 0
             /\ is_executing_trajectory'
             /\ (is_executing_trajectory
                   => Count(SubSeq(trace', 2, Len(trace')),
                            Event("send_motion_command", "all_zero", 0)) = 1) ]_vars

\* The segment the cursor of the controller is on: from the point at the
\* cursor to the next one.
OnSegment == trajectory_index + 1 < Len(current_trajectory)

SegmentDelta ==
    current_trajectory[trajectory_index + 2].timestamp
      - current_trajectory[trajectory_index + 1].timestamp

\* The finite difference of the two points of the segment over their time delta.
FiniteDifference ==
    LET p == current_trajectory[trajectory_index + 1]
        q == current_trajectory[trajectory_index + 2]
    IN  MotionCommand((q.x - p.x) \div SegmentDelta, (q.y - p.y) \div SegmentDelta,
                      (q.yaw - p.yaw) \div SegmentDelta)

\* What move_velocity makes of a velocity triple.
Clamped(command) ==
    MotionCommand(Clamp(command.linear_x, max_linear_vel),
                  Clamp(command.linear_y, max_linear_vel),
                  Clamp(command.angular_z, max_angular_vel))

\* The commands the run recorded in t issued to the manager.
Issued(t) == { i \in DOMAIN t : t[i].ev = "send_motion_command" }

\* The cursor moves on by one over the same trajectory, which stays active.
CursorAdvances ==
    /\ current_trajectory' = current_trajectory
    /\ trajectory_index' = trajectory_index + 1
    /\ is_executing_trajectory'

\* The step past the last point: the flag is cleared and the all-zero stop is
\* the one command issued.
CompletesWithStop ==
    /\ current_trajectory' = current_trajectory
    /\ trajectory_index' = trajectory_index
    /\ ~is_executing_trajectory'
    /\ trace' = << Event("send_motion_command", "all_zero", 0) >>

\* A trajectory in the hands of a running loop comes to its end.
TrajectoryEnds ==
    (is_executing_trajectory /\ control_running /\ current_trajectory # << >>)
      ~> ~is_executing_trajectory

\* C26: a trajectory that is handed over and left alone is stepped through
\* in index order, one point per iteration of the loop, with exactly one
\* velocity command per segment: move_velocity called with the finite
\* difference of the two points over their time delta (which it clamps and
\* sends on).  Past the final point the flag is cleared and the all-zero stop
\* is issued, and a running loop gets there.
C26_OneCommandPerSegment ==
    /\ [][ last_op' = "control_loop"
             => IF trajectory_index < Len(current_trajectory)
                THEN /\ CursorAdvances
                     /\ OnSegment
                          => /\ SegmentDelta > 0
                             /\ Len(trace') = 2
                             /\ trace'[1] = Event("move_velocity", FiniteDifference, 0)
                             /\ Cardinality(Issued(trace')) = 1
                             /\ out' \in { << >>, << Clamped(FiniteDifference) >> }
                     /\ ~OnSegment => trace' = << >>
                ELSE CompletesWithStop ]_vars
    /\ TrajectoryEnds

C26_Witness ==
    /\ last_op = "control_loop"
    /\ ~is_executing_trajectory
    /\ current_trajectory = Line(MaxPoints, MaxVel)
    /\ trajectory_index = MaxPoints
    /\ out = << StopCommand >>

\* The time budget of the plan of this run:
\* max(distance / max_speed, angular_distance / (0.5 * max_angular_vel), 1.0).
TimeBudget ==
    LET dx == RSub(plan.target.x, plan.start.x)
        dy == RSub(plan.target.y, plan.start.y)
        distance == RSqrt(RAdd(RMul(dx, dx), RMul(dy, dy)))
        angular_distance == RAbs(RSub(plan.target.yaw, plan.start.yaw))
    IN  RMax(RMax(RDiv(distance, plan.max_speed),
                  RDiv(angular_distance, HalfAngularLimit)),
             Whole(1))

ControllerOperations ==
    { "move_velocity", "move_to_position", "execute_trajectory", "change_gait",
      "set_step_height" }

\* C28: no public operation of the controller raises: move_velocity,
\* move_to_position, execute_trajectory, change_gait and set_step_height
\* return true or false in every state of the manager, and false when the
\* manager refuses the command; move_to_position with max_speed = 0 returns
\* false and leaves current_trajectory, trajectory_index and
\* is_executing_trajectory as they are.
C28_NoOperationRaises ==
    [][ last_op' \in ControllerOperations
          => /\ ret' \in {"True", "False"}
             /\ (last_op' \in {"move_velocity", "change_gait", "set_step_height"}
                   /\ (~is_connected \/ emergency_stop)
                   => ret' = "False")
             /\ (last_op' = "move_to_position" /\ plan.max_speed = Whole(0)
                   => /\ ret' = "False"
                      /\ << current_trajectory, trajectory_index,
                            is_executing_trajectory >>'
                         = << current_trajectory, trajectory_index,
                              is_executing_trajectory >>) ]_vars

C28_Witness ==
    /\ last_op = "move_to_position" /\ ret = "False"
    /\ plan.max_speed = Whole(0)
    /\ is_executing_trajectory
    /\ current_trajectory = Line(MaxPoints, 1)
    /\ is_connected /\ ~emergency_stop

\* C29: stop() cancels the loop and then attempts one all-zero stop, after
\* whatever the loop issued last; from the moment stop() has cancelled the
\* loop, the loop issues no command until start() is called again.
C29_StopCancelsThenStops ==
    [][ /\ (last_op' = "controller_stop" /\ stop_pc' = "idle"
              => trace' = << Event("send_motion_command", "all_zero", 0) >>)
        /\ (last_op' = "controller_stop" /\ stop_pc' = "awaiting"
              => ~control_running' /\ trace' = << >>)
        /\ (last_op' = "control_loop" => control_running)
        /\ (~control_running /\ control_running' => last_op' = "controller_start") ]_vars

C29_Witness ==
    /\ last_op = "controller_stop" /\ stop_pc = "idle"
    /\ ~control_running
    /\ is_executing_trajectory /\ trajectory_index = 1
    /\ current_trajectory = Line(MaxPoints, 1)
    /\ out = << StopCommand >>

\* The value handed to the state callbacks: callback(self.robot_state) hands
\* over the RobotState object of the manager, so what an observer holds reads
\* as the manager's robot_state reads.
Snapshot == robot_state

\* The step that has just been taken is a monitoring tick that delivered the
\* state to an observer.
Delivered ==
    /\ last_op = "monitoring_loop"
    /\ \E i \in DOMAIN trace : trace[i].ev = "state_callback"

\* C30: the RobotState value delivered to a state callback at one tick is not
\* changed by what comes after it: a monitoring tick, stand_up or sit_down,
\* connect or disconnect.
C30_SnapshotsImmutable ==
    [][ Delivered => Snapshot' = Snapshot ]_vars

\* The ROS 2 client held a sample younger than the staleness window when the
\* tick recorded in t read it.
SampleSupplied(t) ==
    \E i \in DOMAIN t : t[i].ev = "latest_sample" /\ t[i].id = "fresh"

LoopStep(op) == last_op' = op /\ heartbeat_age' <= heartbeat_age

\* The run recorded in t sent a heartbeat packet.
HeartbeatSent(t) ==
    \E i \in DOMAIN t : t[i].ev = "sendto" /\ t[i].id = "heartbeat"

\* C32: once disconnect() has cancelled the loops and until start_monitoring()
\* is called again, no monitoring iteration refreshes RobotState or calls a
\* state callback and no heartbeat is sent, however often start_monitoring()
\* was called before.
C32_LoopsStopAtDisconnect ==
    [][ /\ monitoring_task = "cancelled" /\ LoopStep("monitoring_loop")
          => trace' = << >> /\ robot_state' = robot_state
        /\ command_task = "cancelled" /\ LoopStep("command_loop")
          => ~HeartbeatSent(trace') ]_vars

\* The run recorded in t handed a heartbeat packet to the socket, whether or
\* not the socket took it.
HeartbeatTried(t) ==
    \E i \in DOMAIN t : t[i].ev \in {"sendto", "sendto_failed"} /\ t[i].id = "heartbeat"

\* C33: an iteration of the command loop of a connected manager sends a
\* heartbeat packet in packet mode whenever more than the period has passed
\* since the last heartbeat, and only then; in ROS 2 mode it sends nothing.
C33_HeartbeatWhenDue ==
    [][ LoopStep("command_loop") /\ is_connected
          => /\ protocol # "ros2" /\ heartbeat_age > HeartbeatPeriod
                  => HeartbeatTried(trace')
             /\ HeartbeatSent(trace')
                  => protocol # "ros2" /\ heartbeat_age > HeartbeatPeriod
             /\ protocol = "ros2" => trace' = << >> ]_vars

\* C34: whenever no operation is in progress, the supervisor's emergency-stop
\* latch and the manager's agree, after any sequence of supervisor emergency
\* stops, resets, direct emergency_stop_robot() calls and initialize() calls.
C34_LatchesAgree ==
    connect_pc = "idle" /\ stop_pc = "idle"
        => (emergency_stop_active <=> emergency_stop)

\* C35: send_motion_command answers True only when the command was handed to
\* the active transport: published on the velocity topic in ROS 2 mode, sent
\* on the socket in packet mode; never when no transport object exists.
C35_TrueMeansHandedOver ==
    [][ last_op' = "send_motion_command" /\ ret' = "True"
          => /\ out' = << api_cmd >>
             /\ protocol = "ros2" => ros2_client # "None"
             /\ protocol # "ros2" => socket ]_vars

\* C36: the loop moves the cursor past a segment only when the segment's
\* velocity command was accepted by the manager; a manager that is
\* disconnected or latched refuses every command, so the cursor stays.
C36_CursorWaitsForAcceptance ==
    [][ (last_op' = "control_loop" /\ OnSegment /\ (~is_connected \/ emergency_stop))
          => trajectory_index' = trajectory_index ]_vars

\* C37: every trajectory handed to execute_trajectory, the empty one
\* included, comes to its end under a running control loop: the executing
\* flag eventually becomes false when no new trajectory is requested.
C37_ExecutionTerminates ==
    (is_executing_trajectory /\ control_running) ~> ~is_executing_trajectory

\* The states the client's sample went through during the iteration recorded in t.
ClientStates(t) == { t[i].id : i \in { n \in DOMAIN t : t[n].ev = "client_state" } }

\* C38: what an iteration of the monitoring loop copies from the ROS 2
\* client's sample into RobotState is one state of that sample: the readings
\* all come from the same state, not partly from before and partly from after
\* a subscriber callback.
C38_ReadsOneSampleState ==
    [][ (last_op' = "monitoring_loop" /\ ClientStates(trace') # {})
          => Sample(robot_state'.battery_level, robot_state'.temperature,
                    robot_state'.roll, robot_state'.pitch) \in ClientStates(trace') ]_vars

\* C39: once monitoring has been started, a manager that is connected (no
\* connect() in progress) has both loops alive, also after disconnect()
\* followed by connect(), and after a connect() that succeeds once the first
\* one had failed.
C39_ConnectedMeansMonitored ==
    (is_connected /\ connect_pc = "idle" /\ monitoring_task # "None")
        => (monitoring_task = "running" /\ command_task = "running")

\* C40: a supervisor tick with monitoring enabled evaluates all five checks,
\* whatever an earlier check of the tick triggers and whatever a callback
\* does: every check whose condition holds in the state the tick reads raises
\* its alert.
C40_EveryCheckEvaluated ==
    [][ SafetyTicked /\ safety_enabled
          => /\ ~robot_state.is_connected => Raised("connection_lost")
             /\ robot_state.battery_level
                    <= Get(safety_config.battery_critical, DefaultBatteryCritical)
                  => Raised("battery_critical")
             /\ robot_state.temperature
                    >= Get(safety_config.max_temperature, DefaultMaxTemperature)
                  => Raised("temperature_critical")
             /\ Abs(robot_state.roll) > DefaultMaxRoll => Raised("roll_limit")
             /\ Abs(robot_state.pitch) > DefaultMaxPitch => Raised("pitch_limit")
             /\ age > TimeoutThreshold => Raised("communication_timeout") ]_vars

====
